---------------------------- MODULE Spec2Model ----------------------------
(***************************************************************************)
(* A model of the qBittorrent load balancer (src/main.py) and its webhook  *)
(* front-end (src/webhook_server.py).                                      *)
(*                                                                         *)
(* The state is the QBittorrentLoadBalancer object (config, instances,     *)
(* pending_torrents, announce_retry_counts, its two locks), the position   *)
(* of each thread (status worker, dispatch worker, reconnect tasks) and a  *)
(* clock.  Webhook requests are handler calls.  Everything the program     *)
(* receives from outside (maindata snapshots, login results, add results,  *)
(* traffic probes, tracker lists, webhook payloads) is an input of the     *)
(* action that reads it.                                                   *)
(*                                                                         *)
(* Units.  Byte quantities are bytes.  upload_speed and download_speed are *)
(* kept in fixed point, in 1/BYTES_TO_KB KB/s: the float x / 1024 of the   *)
(* source is exact for the integers qBittorrent reports, so order and      *)
(* equality of the floats are those of the numerators.  progress is kept   *)
(* in percent (1.0 is 100, 0.8 is 80).  Times are whole seconds.           *)
(***************************************************************************)
EXTENDS Integers, Sequences, FiniteSets, TLC

VARIABLES
    config,                 \* self.config, after _validate_config and _set_config_defaults
    instances,              \* self.instances: a sequence of InstanceInfo records
    pending_torrents,       \* self.pending_torrents: a sequence of PendingTorrent records
    announce_retry_counts,  \* self.announce_retry_counts: info-hash -> count
    pending_torrents_lock,  \* "free" or the thread holding it
    instances_lock,         \* "free" or the thread holding it
    now,                    \* datetime.now(), in seconds
    status,                 \* status_update_thread: [pc, i, current_time]
    dispatch,               \* task_processor_thread: [pc, snapshot, k, selected, failed, broke]
    reconnect,              \* reconnect-<name> threads: instance index -> [pc, attempt]
    webhook,                \* the last webhook response: [code, flip], flip changing with every request
    rpc_log,                \* RPCs issued by the last _process_instance_announces
    hist,                   \* history: what was enqueued, handed out, observed, probed
    scenario                \* history of a scenario run: [start, passes, add_failed]

vars == <<config, instances, pending_torrents, announce_retry_counts,
          pending_torrents_lock, instances_lock, now, status, dispatch,
          reconnect, webhook, rpc_log, hist, scenario>>

-----------------------------------------------------------------------------
(* Program constants *)

BYTES_TO_KB == 1024
MAX_RECONNECT_ATTEMPTS == 1
TRAFFIC_CHECK_EVERY == 30
THROTTLED_TRAFFIC_OUT == 999999999
AGE_MIN == 2
AGE_MAX == 130
AGE_COMPLETED_MAX == 60
FORCE_FIRST_SECONDS == 60
FORCE_SECOND_SECONDS == 120
PEER_PROGRESS_PCT == 80
PEER_MIN_LEECHS == 3
COMPLETE_PCT == 100

SUPPORTED_SORT_KEYS == {"upload_speed", "download_speed", "active_downloads"}
DEFAULT_PRIMARY_SORT_KEY == "upload_speed"

\* int(float(mb) * 1024 * 1024) for a non-negative whole number of MiB
MbToBytes(mb) == mb * 1024 * 1024

-----------------------------------------------------------------------------
(* Bounds of the model *)

NumInstances == 2        \* instances of the concurrent specifications
MaxCap == 2              \* largest max_new_tasks_per_instance
MaxEnqueued == 2         \* webhook requests that append an entry
MaxPasses == 2           \* dispatch passes of the scenario specification
MaxNow == 3              \* the clock of the health specification stops here
MaxSnapshots == 1        \* successful snapshots per instance (health, dispatch)
MaxProbeSnapshots == 31  \* successful snapshots per instance (traffic)
MaxObservations == 1     \* snapshots of the supervisor specification
MaxTicks == 2            \* snapshots of the announce specification
MaxElapsed == 2          \* seconds that pass in the eviction specification

-----------------------------------------------------------------------------
(* Helpers on sequences *)

Range(s) == {s[k] : k \in 1..Len(s)}

RECURSIVE SeqSum(_)
SeqSum(s) == IF s = <<>> THEN 0 ELSE Head(s) + SeqSum(Tail(s))

\* list.remove(x): drops the first element equal to x
RECURSIVE RemoveFirst(_, _)
RemoveFirst(s, x) ==
    IF s = <<>> THEN <<>>
    ELSE IF Head(s) = x THEN Tail(s)
    ELSE <<Head(s)>> \o RemoveFirst(Tail(s), x)

-----------------------------------------------------------------------------
(* InstanceInfo and PendingTorrent *)

\* InstanceInfo as _create_instance_from_config builds it (dataclass defaults)
InstanceInfo(traffic_check_url, traffic_limit_mb, reserved_space_mb) ==
    [is_connected |-> FALSE,
     is_reconnecting |-> FALSE,
     upload_speed |-> 0,
     download_speed |-> 0,
     active_downloads |-> 0,
     free_space |-> 0,
     new_tasks_count |-> 0,
     total_added_tasks_count |-> 0,
     success_metrics_count |-> 0,
     traffic_out |-> 0,
     traffic_limit |-> MbToBytes(traffic_limit_mb),
     traffic_check_url |-> traffic_check_url,
     reserved_space |-> MbToBytes(reserved_space_mb),
     last_update |-> 0]

PendingTorrent(download_url, release_name, category) ==
    [download_url |-> download_url,
     release_name |-> release_name,
     category |-> category]

-----------------------------------------------------------------------------
(* Values the inputs and the configurations are drawn from *)

MiB == MbToBytes(1)
Urls == {"u1", "u2"}
Hashes == {"h1", "h2"}
Speeds == {10 * BYTES_TO_KB, 20 * BYTES_TO_KB}     \* 10 KB/s and 20 KB/s
MeterUrl == "http://meter/traffic"

NoData == [json |-> FALSE, release_name |-> "", download_url |-> "",
           indexer |-> "", category |-> ""]
NoProbe == [kind |-> "none", out |-> 0, trafficThrottled |-> FALSE]
NoMaindata == [up_info_speed |-> 0, dl_info_speed |-> 0, free_space_on_disk |-> 0,
               torrents |-> <<>>]
NoReplies == [h \in Hashes |-> [raises |-> TRUE, trackers |-> <<>>]]

ConfigWith(cap, key) ==
    [max_new_tasks_per_instance |-> cap,
     primary_sort_key |-> key,
     debug_add_stopped |-> FALSE,
     fast_announce_interval |-> 3,
     max_announce_retries |-> 12,
     reconnect_interval |-> 2,
     max_reconnect_attempts |-> MAX_RECONNECT_ATTEMPTS]

IdleStatus == [pc |-> "idle", i |-> 0, current_time |-> 0]
IdleDispatch == [pc |-> "idle", snapshot |-> <<>>, k |-> 0, selected |-> 0,
                 failed |-> FALSE, broke |-> FALSE]
NoWebhook == [code |-> 0, flip |-> FALSE]
NoHistory(n) ==
    [enqueued |-> [u \in Urls |-> 0],
     handed |-> [u \in Urls |-> 0],
     enqueue_calls |-> FALSE,
     dropped |-> <<>>,
     observed |-> [h \in Hashes |-> 0],
     last_probe |-> [k \in 1..n |-> NoProbe]]
NoScenario ==
    [start |-> <<>>, passes |-> 0, add_failed |-> FALSE, placed |-> [u \in Urls |-> 0],
     snapshot |-> <<>>, leftover |-> <<>>, turn |-> <<>>, add_params |-> <<>>,
     down |-> [k \in 1..NumInstances |-> -1],
     cause |-> [k \in 1..NumInstances |-> "none"],
     retries |-> [u \in Urls |-> 0]]

AddResults ==
    {[raises |-> FALSE, body |-> <<"O", "k", ".">>],
     [raises |-> FALSE, body |-> <<"F", "a", "i", "l", "s", ".">>],
     [raises |-> FALSE, body |-> <<>>],
     [raises |-> TRUE, body |-> <<>>]}

-----------------------------------------------------------------------------
(* Dispatch scheduler: eligibility and ordering *)

\* _is_traffic_within_limit
IsTrafficWithinLimit(instance) ==
    IF instance.traffic_out = 0 THEN TRUE
    ELSE IF instance.traffic_limit = 0 THEN TRUE
    ELSE instance.traffic_out < instance.traffic_limit

\* _get_primary_sort_value
GetPrimarySortValue(cfg, instance) ==
    IF cfg.primary_sort_key = "upload_speed" THEN instance.upload_speed
    ELSE IF cfg.primary_sort_key = "download_speed" THEN instance.download_speed
    ELSE IF cfg.primary_sort_key = "active_downloads" THEN instance.active_downloads
    ELSE instance.upload_speed

IsAvailable_IgnoresConnection(cfg, instance) ==
    /\ instance.new_tasks_count < cfg.max_new_tasks_per_instance
    /\ instance.free_space > instance.reserved_space
    /\ IsTrafficWithinLimit(instance)

IsAvailable_CapOffByOne(cfg, instance) ==
    /\ instance.is_connected
    /\ instance.new_tasks_count <= cfg.max_new_tasks_per_instance
    /\ instance.free_space > instance.reserved_space
    /\ IsTrafficWithinLimit(instance)

IsAvailable_ReserveNotStrict(cfg, instance) ==
    /\ instance.is_connected
    /\ instance.new_tasks_count < cfg.max_new_tasks_per_instance
    /\ instance.free_space >= instance.reserved_space
    /\ IsTrafficWithinLimit(instance)

\* the filter of _select_best_instance
IsAvailable(cfg, instance) ==
    /\ instance.is_connected
    /\ instance.new_tasks_count < cfg.max_new_tasks_per_instance
    /\ instance.free_space > instance.reserved_space
    /\ IsTrafficWithinLimit(instance)

SortKey_FreeSpaceAscending(cfg, instance) ==
    <<GetPrimarySortValue(cfg, instance),
      instance.total_added_tasks_count,
      instance.free_space>>

\* the key of available_instances.sort
SortKey(cfg, instance) ==
    <<GetPrimarySortValue(cfg, instance),
      instance.total_added_tasks_count,
      0 - instance.free_space>>

\* Python's order on tuples of three numbers
TupleLess(a, b) ==
    \/ a[1] < b[1]
    \/ a[1] = b[1] /\ a[2] < b[2]
    \/ a[1] = b[1] /\ a[2] = b[2] /\ a[3] < b[3]

\* one step of a stable sort: x goes before the first element whose key is
\* strictly greater than x's
RECURSIVE InsertStable(_, _, _, _)
InsertStable(cfg, insts, sorted, x) ==
    IF sorted = <<>> THEN <<x>>
    ELSE IF TupleLess(SortKey(cfg, insts[x]), SortKey(cfg, insts[Head(sorted)]))
         THEN <<x>> \o sorted
    ELSE <<Head(sorted)>> \o InsertStable(cfg, insts, Tail(sorted), x)

\* list.sort(key=...): stable, ascending; idxs are indices into insts
RECURSIVE SortByKey(_, _, _)
SortByKey(cfg, insts, idxs) ==
    IF idxs = <<>> THEN <<>>
    ELSE InsertStable(cfg, insts,
                      SortByKey(cfg, insts, SubSeq(idxs, 1, Len(idxs) - 1)),
                      idxs[Len(idxs)])

\* available_instances, as indices into self.instances, in list order
AvailableInstances(cfg, insts) ==
    SelectSeq([k \in 1..Len(insts) |-> k], LAMBDA k : IsAvailable(cfg, insts[k]))

\* _select_best_instance: the index of the selected instance, 0 for None
SelectBestInstance(cfg, insts) ==
    LET available_instances == AvailableInstances(cfg, insts)
    IN  IF available_instances = <<>> THEN 0
        ELSE Head(SortByKey(cfg, insts, available_instances))

-----------------------------------------------------------------------------
(* Ingest queue *)

AddPendingTorrent_ReplacesPending(queue, download_url, release_name, category) ==
    IF download_url = "" THEN queue
    ELSE IF release_name = "" THEN queue
    ELSE IF \E k \in 1..Len(queue) : queue[k].download_url = download_url
         THEN [k \in 1..Len(queue) |->
                  IF queue[k].download_url = download_url
                  THEN PendingTorrent(download_url, release_name, category)
                  ELSE queue[k]]
    ELSE Append(queue, PendingTorrent(download_url, release_name, category))

AddPendingTorrent_NoDuplicateCheck(queue, download_url, release_name, category) ==
    IF download_url = "" THEN queue
    ELSE IF release_name = "" THEN queue
    ELSE Append(queue, PendingTorrent(download_url, release_name, category))

\* add_pending_torrent: the queue after the call
AddPendingTorrent(queue, download_url, release_name, category) ==
    IF download_url = "" THEN queue
    ELSE IF release_name = "" THEN queue
    ELSE IF \E k \in 1..Len(queue) : queue[k].download_url = download_url
         THEN queue
    ELSE Append(queue, PendingTorrent(download_url, release_name, category))

\* WebhookServer._extract_torrent_data: <<>> for None
ExtractTorrentData(data) ==
    IF data.release_name = "" THEN <<>>
    ELSE IF data.download_url = "" THEN <<>>
    ELSE <<data.release_name, data.download_url, data.indexer, data.category>>

\* x or y on strings
StrOr(x, y) == IF x # "" THEN x ELSE y

\* result and result.startswith('Ok'), the result a sequence of characters
StartsWithOk(result) ==
    /\ Len(result) >= 2
    /\ result[1] = "O"
    /\ result[2] = "k"

-----------------------------------------------------------------------------
(* Traffic probe and metrics snapshot *)

\* A probe is what requests.get(traffic_check_url) gives: kind "ok" with the
\* JSON fields out (MiB) and trafficThrottled, kind "bad_value" for an out that
\* float() rejects, kind "error" for an HTTP error or invalid JSON.
CheckInstanceTraffic_ThrottleIgnored(instance, probe) ==
    IF instance.traffic_check_url = "" THEN instance
    ELSE IF probe.kind = "error" THEN [instance EXCEPT !.traffic_out = 0]
    ELSE IF probe.kind = "bad_value" THEN [instance EXCEPT !.traffic_out = 0]
    ELSE [instance EXCEPT !.traffic_out = MbToBytes(probe.out)]

CheckInstanceTraffic_KeepsOnError(instance, probe) ==
    IF instance.traffic_check_url = "" THEN instance
    ELSE IF probe.kind = "error" THEN instance
    ELSE IF probe.kind = "bad_value" THEN instance
    ELSE IF probe.trafficThrottled
         THEN [instance EXCEPT !.traffic_out = THROTTLED_TRAFFIC_OUT]
    ELSE [instance EXCEPT !.traffic_out = MbToBytes(probe.out)]

\* _check_instance_traffic: the instance after the call
CheckInstanceTraffic(instance, probe) ==
    IF instance.traffic_check_url = "" THEN instance
    ELSE IF probe.kind = "error" THEN [instance EXCEPT !.traffic_out = 0]
    ELSE IF probe.kind = "bad_value" THEN [instance EXCEPT !.traffic_out = 0]
    ELSE IF probe.trafficThrottled
         THEN [instance EXCEPT !.traffic_out = THROTTLED_TRAFFIC_OUT]
    ELSE [instance EXCEPT !.traffic_out = MbToBytes(probe.out)]

\* A maindata is [up_info_speed, dl_info_speed, free_space_on_disk, torrents],
\* torrents a function from info-hashes to [added_on, progress, state, num_leechs].
ActiveDownloads(maindata) ==
    Cardinality({h \in DOMAIN maindata.torrents :
                     maindata.torrents[h].state = "downloading"})

UpdateInstanceMetrics_ProbesEachSnapshot(instance, maindata, probe, t) ==
    CheckInstanceTraffic([instance EXCEPT
                             !.upload_speed = maindata.up_info_speed,
                             !.download_speed = maindata.dl_info_speed,
                             !.free_space = maindata.free_space_on_disk,
                             !.active_downloads = ActiveDownloads(maindata),
                             !.last_update = t,
                             !.success_metrics_count = @ + 1], probe)

\* _update_instance_metrics: the instance after the call at time t
UpdateInstanceMetrics(instance, maindata, probe, t) ==
    LET updated == [instance EXCEPT
                       !.upload_speed = maindata.up_info_speed,
                       !.download_speed = maindata.dl_info_speed,
                       !.free_space = maindata.free_space_on_disk,
                       !.active_downloads = ActiveDownloads(maindata),
                       !.last_update = t,
                       !.success_metrics_count = @ + 1]
    IN  IF updated.success_metrics_count % TRAFFIC_CHECK_EVERY = 0
        THEN CheckInstanceTraffic(updated, probe)
        ELSE updated

-----------------------------------------------------------------------------
(* Announce supervisor *)

AgeSeconds(torrent, t) == t - torrent.added_on

IsCompleted(torrent) == torrent.progress = COMPLETE_PCT

StopsMonitoring_KeepsCompleted(torrent, t) ==
    \/ AgeSeconds(torrent, t) > AGE_MAX
    \/ AgeSeconds(torrent, t) < AGE_MIN

\* condition 1 of _process_instance_announces: stop watching this torrent
StopsMonitoring(torrent, t) ==
    \/ IsCompleted(torrent) /\ AgeSeconds(torrent, t) > AGE_COMPLETED_MAX
    \/ AgeSeconds(torrent, t) > AGE_MAX
    \/ AgeSeconds(torrent, t) < AGE_MIN

RetriesAfter_StartsAtTwo(counts, h) ==
    IF h \in DOMAIN counts THEN counts[h] + 1 ELSE 2

\* the counter of a watched torrent after this observation
RetriesAfter(counts, h) ==
    IF h \in DOMAIN counts THEN counts[h] + 1 ELSE 0 + 1

\* announce_retry_counts after one call of _process_instance_announces
AnnounceCountsAfter_IgnoresDebug(cfg, counts, maindata, t) ==
    LET seen == DOMAIN maindata.torrents
        stopped == {h \in seen : StopsMonitoring(maindata.torrents[h], t)}
        watched == seen \ stopped
    IN  [h \in (DOMAIN counts \ stopped) \cup watched |->
            IF h \in watched THEN RetriesAfter(counts, h) ELSE counts[h]]

AnnounceCountsAfter(cfg, counts, maindata, t) ==
    IF cfg.debug_add_stopped THEN counts
    ELSE LET seen == DOMAIN maindata.torrents
             stopped == {h \in seen : StopsMonitoring(maindata.torrents[h], t)}
             watched == seen \ stopped
         IN  [h \in (DOMAIN counts \ stopped) \cup watched |->
                 IF h \in watched THEN RetriesAfter(counts, h) ELSE counts[h]]

FirstForceAnnounce(cfg) == FORCE_FIRST_SECONDS \div cfg.fast_announce_interval
SecondForceAnnounce(cfg) == FORCE_SECOND_SECONDS \div cfg.fast_announce_interval

\* Tracker urls and messages are drawn from these literals.
PeerSourceUrls == {"dht", "PeX", "lsd"}          \* url.lower() in ('dht', 'pex', 'lsd')
HttpUrls == {"http://a/announce", "https://b/announce"}
OtherUrls == {"udp://c:6969"}
ErrorMessages == {"Torrent not registered", "torrent not found"}
PlainMessages == {"", "ok"}

\* the filtered_trackers of a tracker list
FilteredTrackers(trackers) ==
    SelectSeq(trackers, LAMBDA tr : tr.url \notin PeerSourceUrls /\ tr.url \in HttpUrls)

AllTrackersFailed(filtered) ==
    \A k \in 1..Len(filtered) : filtered[k].status \in {1, 3, 4}

HasErrorKeyword(filtered) ==
    \E k \in 1..Len(filtered) : filtered[k].msg \in ErrorMessages

TorrentRpcs_ThresholdInclusive(cfg, k, h, torrent, reply) ==
    IF (k = FirstForceAnnounce(cfg) \/ k = SecondForceAnnounce(cfg)) /\ ~IsCompleted(torrent)
    THEN {[op |-> "reannounce", hash |-> h]}
    ELSE IF k <= cfg.max_announce_retries
    THEN {[op |-> "trackers", hash |-> h]} \cup
         (IF reply.raises THEN {}
          ELSE LET filtered == FilteredTrackers(reply.trackers)
               IN  IF filtered = <<>> THEN {}
                   ELSE IF \/ AllTrackersFailed(filtered)
                           \/ HasErrorKeyword(filtered)
                           \/ /\ torrent.progress < PEER_PROGRESS_PCT
                              /\ torrent.num_leechs < PEER_MIN_LEECHS
                        THEN {[op |-> "reannounce", hash |-> h]}
                        ELSE {})
    ELSE {}

TorrentRpcs_ThresholdBeforeForce(cfg, k, h, torrent, reply) ==
    IF k >= cfg.max_announce_retries THEN {}
    ELSE IF (k = FirstForceAnnounce(cfg) \/ k = SecondForceAnnounce(cfg))
            /\ ~IsCompleted(torrent)
    THEN {[op |-> "reannounce", hash |-> h]}
    ELSE {[op |-> "trackers", hash |-> h]} \cup
         (IF reply.raises THEN {}
          ELSE LET filtered == FilteredTrackers(reply.trackers)
               IN  IF filtered = <<>> THEN {}
                   ELSE IF \/ AllTrackersFailed(filtered)
                           \/ HasErrorKeyword(filtered)
                           \/ /\ torrent.progress < PEER_PROGRESS_PCT
                              /\ torrent.num_leechs < PEER_MIN_LEECHS
                        THEN {[op |-> "reannounce", hash |-> h]}
                        ELSE {})

\* The RPCs one torrent's observation issues: a set of [op, hash].  reply is
\* what torrents_trackers gives for it: [raises, trackers].
TorrentRpcs(cfg, k, h, torrent, reply) ==
    IF (k = FirstForceAnnounce(cfg) \/ k = SecondForceAnnounce(cfg)) /\ ~IsCompleted(torrent)
    THEN {[op |-> "reannounce", hash |-> h]}
    ELSE IF k < cfg.max_announce_retries
    THEN {[op |-> "trackers", hash |-> h]} \cup
         (IF reply.raises THEN {}
          ELSE LET filtered == FilteredTrackers(reply.trackers)
               IN  IF filtered = <<>> THEN {}
                   ELSE IF \/ AllTrackersFailed(filtered)
                           \/ HasErrorKeyword(filtered)
                           \/ /\ torrent.progress < PEER_PROGRESS_PCT
                              /\ torrent.num_leechs < PEER_MIN_LEECHS
                        THEN {[op |-> "reannounce", hash |-> h]}
                        ELSE {})
    ELSE {}

AnnounceRpcs_StopsAtFailure(cfg, counts, maindata, replies, t) ==
    IF cfg.debug_add_stopped THEN {}
    ELSE LET after == AnnounceCountsAfter(cfg, counts, maindata, t)
             watched == {x \in DOMAIN maindata.torrents :
                            ~StopsMonitoring(maindata.torrents[x], t)}
             rpcs(h) == TorrentRpcs(cfg, after[h], h, maindata.torrents[h], replies[h])
             failed == {h \in watched :
                           \/ [op |-> "trackers", hash |-> h] \in rpcs(h)
                              /\ replies[h].raises
                           \/ [op |-> "reannounce", hash |-> h] \in rpcs(h)
                              /\ replies[h].reannounce_raises}
         IN  IF failed = {} THEN UNION {rpcs(h) : h \in watched}
             ELSE UNION {rpcs(h) : h \in failed}

\* the RPCs of one call of _process_instance_announces; replies: hash -> reply
AnnounceRpcs(cfg, counts, maindata, replies, t) ==
    IF cfg.debug_add_stopped THEN {}
    ELSE LET after == AnnounceCountsAfter(cfg, counts, maindata, t)
         IN  UNION {TorrentRpcs(cfg, after[h], h, maindata.torrents[h], replies[h]) :
                       h \in {x \in DOMAIN maindata.torrents :
                                 ~StopsMonitoring(maindata.torrents[x], t)}}

-----------------------------------------------------------------------------
(* Webhook front-end *)

\* add_pending_torrent: a call without a url or a name returns before it takes
\* pending_torrents_lock, any other runs under it.  The queue and the history
\* after the call (enqueue_calls changes with every call, dropped is the last
\* call with both arguments whose url was already pending)
Enqueue(download_url, release_name, category) ==
    /\ download_url = "" \/ release_name = "" \/ pending_torrents_lock = "free"
    /\ pending_torrents' =
           AddPendingTorrent(pending_torrents, download_url, release_name, category)
    /\ hist' = IF pending_torrents' # pending_torrents
               THEN [hist EXCEPT !.enqueue_calls = ~@, !.enqueued[download_url] = @ + 1]
               ELSE IF download_url # "" /\ release_name # ""
               THEN [hist EXCEPT !.enqueue_calls = ~@,
                                 !.dropped = <<download_url, release_name, category>>]
               ELSE [hist EXCEPT !.enqueue_calls = ~@]

\* add_pending_torrent, called by a front-end
AddPendingTorrentCall(download_url, release_name, category) ==
    /\ Enqueue(download_url, release_name, category)
    /\ UNCHANGED <<config, instances, announce_retry_counts, pending_torrents_lock,
                   instances_lock, now, status, dispatch, reconnect, webhook, rpc_log>>

\* webhook_handler, with _process_webhook_data and add_pending_torrent.  data is
\* the request's JSON: [json, release_name, download_url, indexer, category],
\* json FALSE for a request without a JSON body, "" for a missing field.
WebhookHandler(data) ==
    LET torrent_data == ExtractTorrentData(data)
        reply(code) == [code |-> code, flip |-> ~webhook.flip]
    IN  /\ UNCHANGED <<config, instances, announce_retry_counts, pending_torrents_lock,
                       instances_lock, now, status, dispatch, reconnect, rpc_log>>
        /\ IF ~data.json
           THEN /\ webhook' = reply(400)
                /\ UNCHANGED <<pending_torrents, hist>>
           ELSE IF torrent_data = <<>>
           THEN /\ webhook' = reply(500)
                /\ UNCHANGED <<pending_torrents, hist>>
           ELSE /\ Enqueue(torrent_data[2], torrent_data[1],
                           StrOr(torrent_data[4], torrent_data[3]))
                /\ webhook' = reply(200)

-----------------------------------------------------------------------------
(* Dispatch worker: task_processor_thread *)

\* _process_torrents up to the loop: an empty queue returns at once
ProcessTorrentsBegin ==
    /\ dispatch.pc = "idle"
    /\ pending_torrents_lock = "free"
    /\ IF pending_torrents = <<>>
       THEN /\ dispatch' = [dispatch EXCEPT !.pc = "reset"]
            /\ UNCHANGED pending_torrents_lock
       ELSE /\ dispatch' = [dispatch EXCEPT !.pc = "select", !.snapshot = pending_torrents,
                                             !.k = 1]
            /\ pending_torrents_lock' = "dispatch"
    /\ UNCHANGED <<config, instances, pending_torrents, announce_retry_counts,
                   instances_lock, now, status, reconnect, webhook, rpc_log, hist>>

ProcessTorrentsSelect_SkipsTorrent ==
    /\ dispatch.pc = "select"
    /\ instances_lock = "free"
    /\ LET selected == SelectBestInstance(config, instances)
       IN  IF selected # 0
           THEN /\ dispatch' = [dispatch EXCEPT !.pc = "add", !.selected = selected]
                /\ UNCHANGED pending_torrents_lock
           ELSE IF dispatch.k < Len(dispatch.snapshot)
           THEN /\ dispatch' = [dispatch EXCEPT !.k = @ + 1]
                /\ UNCHANGED pending_torrents_lock
           ELSE /\ dispatch' = [dispatch EXCEPT !.pc = "reset"]
                /\ pending_torrents_lock' = "free"
    /\ UNCHANGED <<config, instances, pending_torrents, announce_retry_counts,
                   instances_lock, now, status, reconnect, webhook, rpc_log, hist>>

\* the loop's call of _select_best_instance, under instances_lock
ProcessTorrentsSelect ==
    /\ dispatch.pc = "select"
    /\ instances_lock = "free"
    /\ LET selected == SelectBestInstance(config, instances)
       IN  IF selected = 0
           THEN /\ dispatch' = [dispatch EXCEPT !.pc = "reset", !.broke = TRUE]
                /\ pending_torrents_lock' = "free"
           ELSE /\ dispatch' = [dispatch EXCEPT !.pc = "add", !.selected = selected]
                /\ UNCHANGED pending_torrents_lock
    /\ UNCHANGED <<config, instances, pending_torrents, announce_retry_counts,
                   instances_lock, now, status, reconnect, webhook, rpc_log, hist>>

\* _add_torrent_to_instance: the arguments of torrents_add; category "" and
\* is_stopped FALSE stand for an argument that is not passed
AddParams(cfg, torrent) ==
    [urls |-> torrent.download_url,
     category |-> torrent.category,
     is_stopped |-> cfg.debug_add_stopped]

\* _add_torrent_to_instance: whether the call returns True.  result is what
\* torrents_add gives: [raises, body], body a sequence of characters.
AddSucceeds(result) == ~result.raises /\ StartsWithOk(result.body)

InstanceAfterAdd_CountsAnyResult(instance, result) ==
    [instance EXCEPT !.new_tasks_count = @ + 1,
                     !.total_added_tasks_count = @ + 1]

\* _add_torrent_to_instance: the instance after the call
InstanceAfterAdd(instance, result) ==
    IF AddSucceeds(result)
    THEN [instance EXCEPT !.new_tasks_count = @ + 1,
                          !.total_added_tasks_count = @ + 1]
    ELSE instance

QueueAfterAdd_KeepsTorrent(queue, torrent, result) == queue

QueueAfterAdd_RequeuesFailed(queue, torrent, result) ==
    IF AddSucceeds(result) THEN RemoveFirst(queue, torrent)
    ELSE Append(RemoveFirst(queue, torrent), torrent)

\* the loop's pending_torrents.remove(torrent) after a successful add
QueueAfterAdd(queue, torrent, result) ==
    IF AddSucceeds(result) THEN RemoveFirst(queue, torrent) ELSE queue

ProcessTorrentsAdd_KeepsLock(result) ==
    /\ dispatch.pc = "add"
    /\ LET torrent == dispatch.snapshot[dispatch.k]
           i == dispatch.selected
       IN  /\ instances' = [instances EXCEPT ![i] = InstanceAfterAdd(@, result)]
           /\ pending_torrents' = QueueAfterAdd(pending_torrents, torrent, result)
           /\ hist' = IF AddSucceeds(result)
                      THEN [hist EXCEPT !.handed[torrent.download_url] = @ + 1]
                      ELSE hist
    /\ IF dispatch.k < Len(dispatch.snapshot)
       THEN dispatch' = [dispatch EXCEPT !.pc = "select", !.k = @ + 1, !.selected = 0,
                                          !.failed = @ \/ ~AddSucceeds(result)]
       ELSE dispatch' = [dispatch EXCEPT !.pc = "reset", !.selected = 0,
                                          !.failed = @ \/ ~AddSucceeds(result)]
    /\ UNCHANGED <<config, announce_retry_counts, pending_torrents_lock, instances_lock,
                   now, status, reconnect, webhook, rpc_log>>

\* the loop's call of _add_torrent_to_instance and the step to the next torrent
ProcessTorrentsAdd(result) ==
    /\ dispatch.pc = "add"
    /\ LET torrent == dispatch.snapshot[dispatch.k]
           i == dispatch.selected
       IN  /\ instances' = [instances EXCEPT ![i] = InstanceAfterAdd(@, result)]
           /\ pending_torrents' = QueueAfterAdd(pending_torrents, torrent, result)
           /\ hist' = IF AddSucceeds(result)
                      THEN [hist EXCEPT !.handed[torrent.download_url] = @ + 1]
                      ELSE hist
    /\ IF dispatch.k < Len(dispatch.snapshot)
       THEN /\ dispatch' = [dispatch EXCEPT !.pc = "select", !.k = @ + 1, !.selected = 0,
                                             !.failed = @ \/ ~AddSucceeds(result)]
            /\ UNCHANGED pending_torrents_lock
       ELSE /\ dispatch' = [dispatch EXCEPT !.pc = "reset", !.selected = 0,
                                             !.failed = @ \/ ~AddSucceeds(result)]
            /\ pending_torrents_lock' = "free"
    /\ UNCHANGED <<config, announce_retry_counts, instances_lock, now, status,
                   reconnect, webhook, rpc_log>>

ResetCounters_ClearsTotal(insts) ==
    [k \in 1..Len(insts) |-> [insts[k] EXCEPT !.new_tasks_count = 0,
                                               !.total_added_tasks_count = 0]]

ResetCounters_Skipped(insts) == insts

\* _reset_task_counters: the instances after the call
ResetCounters(insts) ==
    [k \in 1..Len(insts) |-> [insts[k] EXCEPT !.new_tasks_count = 0]]

\* _reset_task_counters, then the thread sleeps
ResetTaskCounters ==
    /\ dispatch.pc = "reset"
    /\ instances_lock = "free"
    /\ instances' = ResetCounters(instances)
    /\ dispatch' = IdleDispatch
    /\ UNCHANGED <<config, pending_torrents, announce_retry_counts, pending_torrents_lock,
                   instances_lock, now, status, reconnect, webhook, rpc_log, hist>>

-----------------------------------------------------------------------------
(* Status worker: status_update_thread *)

\* non-evicting observations of each hash since it was last seen evicted
ObservedAfter(cfg, observed, maindata, t) ==
    IF cfg.debug_add_stopped THEN observed
    ELSE [h \in DOMAIN observed |->
             IF h \notin DOMAIN maindata.torrents THEN observed[h]
             ELSE LET age == t - maindata.torrents[h].added_on
                      completed == maindata.torrents[h].progress = 100
                  IN  IF 2 <= age /\ age <= 130 /\ ~(completed /\ age > 60)
                      THEN observed[h] + 1
                      ELSE 0]

\* _update_instance_status takes instances_lock for the whole tick
UpdateInstanceStatusBegin ==
    /\ status.pc = "idle"
    /\ instances_lock = "free"
    /\ instances_lock' = "status"
    /\ status' = [status EXCEPT !.pc = "update", !.i = 1]
    /\ UNCHANGED <<config, instances, pending_torrents, announce_retry_counts,
                   pending_torrents_lock, now, dispatch, reconnect, webhook, rpc_log,
                   hist>>

InstanceAfterFailedUpdate_StaysConnected(instance, t) ==
    [instance EXCEPT !.last_update = t]

\* _update_single_instance when both attempts fail
InstanceAfterFailedUpdate(instance, t) ==
    [instance EXCEPT !.is_connected = FALSE, !.last_update = t]

\* the status worker leaves the loop of _update_instance_status after the last
\* instance and releases instances_lock
StatusAfterInstance ==
    IF status.i < Len(instances)
    THEN /\ status' = [status EXCEPT !.i = @ + 1]
         /\ UNCHANGED instances_lock
    ELSE /\ status' = [status EXCEPT !.pc = "summary", !.i = 0]
         /\ instances_lock' = "free"

\* the calls of sync_maindata that one turn of the loop makes for an instance,
\* and how many of them raised
UpdateAttempts(instance, outcome) ==
    IF ~instance.is_connected THEN [attempts |-> 0, failures |-> 0]
    ELSE IF outcome = "ok" THEN [attempts |-> 1, failures |-> 0]
    ELSE IF outcome = "retry_ok" THEN [attempts |-> 2, failures |-> 1]
    ELSE [attempts |-> 2, failures |-> 2]

\* One turn of the loop of _update_instance_status, for instance status.i:
\* _update_single_instance when it is connected.  outcome is "ok" (the first
\* sync_maindata succeeds), "retry_ok" (the first fails, the second succeeds) or
\* "fail" (both fail); maindata, probe and replies are what the instance, its
\* traffic meter and torrents_trackers return.
UpdateSingleInstance(outcome, maindata, probe, replies) ==
    /\ status.pc = "update"
    /\ instances_lock = "status"
    /\ LET i == status.i
           instance == instances[i]
       IN  IF ~instance.is_connected
           THEN UNCHANGED <<instances, announce_retry_counts, rpc_log, hist>>
           ELSE IF outcome = "fail"
           THEN /\ instances' = [instances EXCEPT ![i] = InstanceAfterFailedUpdate(@, now)]
                /\ UNCHANGED <<announce_retry_counts, rpc_log, hist>>
           ELSE /\ instances' = [instances EXCEPT
                                    ![i] = UpdateInstanceMetrics(@, maindata, probe, now)]
                /\ announce_retry_counts' =
                       AnnounceCountsAfter(config, announce_retry_counts, maindata, now)
                /\ rpc_log' = AnnounceRpcs(config, announce_retry_counts, maindata,
                                           replies, now)
                /\ hist' = [hist EXCEPT
                               !.observed = ObservedAfter(config, @, maindata, now),
                               !.last_probe[i] =
                                   IF /\ (instance.success_metrics_count + 1) % 30 = 0
                                      /\ instance.traffic_check_url # ""
                                   THEN probe ELSE @]
    /\ StatusAfterInstance
    /\ UNCHANGED <<config, pending_torrents, pending_torrents_lock, now, dispatch,
                   reconnect, webhook>>

\* _log_status_summary reads the instances under instances_lock; then
\* _check_and_schedule_reconnects reads current_time, before it takes the lock
LogStatusSummary ==
    /\ status.pc = "summary"
    /\ instances_lock = "free"
    /\ status' = [status EXCEPT !.pc = "schedule", !.current_time = now]
    /\ UNCHANGED <<config, instances, pending_torrents, announce_retry_counts,
                   pending_torrents_lock, instances_lock, now, dispatch, reconnect,
                   webhook, rpc_log, hist>>

NeedsReconnect_IgnoresFlag(cfg, instance, current_time) ==
    /\ ~instance.is_connected
    /\ current_time - instance.last_update >= cfg.reconnect_interval

\* the test of _check_and_schedule_reconnects
NeedsReconnect(cfg, instance, current_time) ==
    /\ ~instance.is_connected
    /\ ~instance.is_reconnecting
    /\ current_time - instance.last_update >= cfg.reconnect_interval

\* _check_and_schedule_reconnects: current_time was read before the lock was
\* taken; every instance due gets the flag and a new reconnect thread.  The
\* status worker then sleeps.
CheckAndScheduleReconnects ==
    /\ status.pc = "schedule"
    /\ instances_lock = "free"
    /\ LET due == {k \in 1..Len(instances) :
                      NeedsReconnect(config, instances[k], status.current_time)}
       IN  /\ instances' = [k \in 1..Len(instances) |->
                               IF k \in due
                               THEN [instances[k] EXCEPT
                                        !.is_reconnecting = TRUE,
                                        !.last_update = status.current_time]
                               ELSE instances[k]]
           /\ reconnect' = [k \in 1..Len(instances) |->
                               IF k \in due
                               THEN Append(reconnect[k], [pc |-> "login", attempt |-> 0])
                               ELSE reconnect[k]]
    /\ status' = [pc |-> "idle", i |-> 0, current_time |-> 0]
    /\ UNCHANGED <<config, pending_torrents, announce_retry_counts, pending_torrents_lock,
                   instances_lock, now, dispatch, webhook, rpc_log, hist>>

-----------------------------------------------------------------------------
(* Reconnect tasks: _async_reconnect_instance *)

\* reconnect[i] with its n-th thread removed
WithoutTask(i, n) ==
    [reconnect EXCEPT ![i] = SubSeq(@, 1, n - 1) \o SubSeq(@, n + 1, Len(@))]

\* One turn of the loop of _attempt_reconnect in the n-th thread of instance i.
\* outcome is "ok" (auth_log_in returns), "fail" (it raises) or "raise" (an
\* exception outside the loop's try, which _async_reconnect_instance catches).
AttemptReconnectLogin(i, n, outcome) ==
    /\ n \in 1..Len(reconnect[i])
    /\ reconnect[i][n].pc = "login"
    /\ LET task == reconnect[i][n]
       IN  reconnect' = [reconnect EXCEPT ![i][n] =
               IF outcome = "raise" THEN [task EXCEPT !.pc = "raised"]
               ELSE IF task.attempt >= config.max_reconnect_attempts
                    THEN [task EXCEPT !.pc = "failed"]
               ELSE IF outcome = "ok" THEN [task EXCEPT !.pc = "success"]
               ELSE IF task.attempt + 1 < config.max_reconnect_attempts
                    THEN [task EXCEPT !.attempt = @ + 1]
               ELSE [task EXCEPT !.pc = "failed", !.attempt = @ + 1]]
    /\ UNCHANGED <<config, instances, pending_torrents, announce_retry_counts,
                   pending_torrents_lock, instances_lock, now, status, dispatch,
                   webhook, rpc_log, hist>>

InstanceAfterReconnect_KeepsFlag(instance) ==
    [instance EXCEPT !.is_connected = TRUE]

\* the locked block of _attempt_reconnect after a login
InstanceAfterReconnect(instance) ==
    [instance EXCEPT !.is_connected = TRUE, !.is_reconnecting = FALSE]

InstanceAfterGivingUp_NoStamp(instance, t) ==
    [instance EXCEPT !.is_reconnecting = FALSE]

InstanceAfterGivingUp_KeepsFlag(instance, t) ==
    [instance EXCEPT !.last_update = t]

\* the locked block after the last failed attempt, and that of the except
\* clause of _async_reconnect_instance
InstanceAfterGivingUp(instance, t) ==
    [instance EXCEPT !.last_update = t, !.is_reconnecting = FALSE]

\* _attempt_reconnect returns True
AttemptReconnectSuccess(i, n) ==
    /\ n \in 1..Len(reconnect[i])
    /\ reconnect[i][n].pc = "success"
    /\ instances_lock = "free"
    /\ instances' = [instances EXCEPT ![i] = InstanceAfterReconnect(@)]
    /\ reconnect' = WithoutTask(i, n)
    /\ UNCHANGED <<config, pending_torrents, announce_retry_counts, pending_torrents_lock,
                   instances_lock, now, status, dispatch, webhook, rpc_log, hist>>

\* _attempt_reconnect returns False
AttemptReconnectFailure(i, n) ==
    /\ n \in 1..Len(reconnect[i])
    /\ reconnect[i][n].pc = "failed"
    /\ instances_lock = "free"
    /\ instances' = [instances EXCEPT ![i] = InstanceAfterGivingUp(@, now)]
    /\ reconnect' = WithoutTask(i, n)
    /\ UNCHANGED <<config, pending_torrents, announce_retry_counts, pending_torrents_lock,
                   instances_lock, now, status, dispatch, webhook, rpc_log, hist>>

\* the except clause of _async_reconnect_instance
AsyncReconnectExcept(i, n) ==
    /\ n \in 1..Len(reconnect[i])
    /\ reconnect[i][n].pc = "raised"
    /\ instances_lock = "free"
    /\ instances' = [instances EXCEPT ![i] = InstanceAfterGivingUp(@, now)]
    /\ reconnect' = WithoutTask(i, n)
    /\ UNCHANGED <<config, pending_torrents, announce_retry_counts, pending_torrents_lock,
                   instances_lock, now, status, dispatch, webhook, rpc_log, hist>>

\* time passes
AdvanceTime ==
    /\ now' = now + 1
    /\ UNCHANGED <<config, instances, pending_torrents, announce_retry_counts,
                   pending_torrents_lock, instances_lock, status, dispatch, reconnect,
                   webhook, rpc_log, hist>>

-----------------------------------------------------------------------------
(* SpecSelect: _select_best_instance on drawn instance lists *)

NumSelectInstances == 2

\* Instances that have been polled 30 times.  The eligible ones take every
\* combination of the fields the ordering reads; each of the others has one
\* reason to be filtered out (with cap 1, a count of 1 is one more).
PolledInstance(m, cnt, f, tr) ==
    [InstanceInfo(MeterUrl, tr[2], 1) EXCEPT
        !.is_connected = TRUE,
        !.success_metrics_count = TRAFFIC_CHECK_EVERY,
        !.new_tasks_count = cnt[1],
        !.total_added_tasks_count = cnt[2],
        !.free_space = f,
        !.traffic_out = MbToBytes(tr[1]),
        !.upload_speed = m[1],
        !.download_speed = m[2],
        !.active_downloads = m[3]]

SelectMetrics ==
    {<<10 * BYTES_TO_KB, 20 * BYTES_TO_KB, 1>>, <<20 * BYTES_TO_KB, 10 * BYTES_TO_KB, 0>>}

SelectInstances ==
    {PolledInstance(m, cnt, f, tr) :
        m \in SelectMetrics,
        cnt \in {<<0, 0>>, <<1, 1>>},
        f \in {MiB + 1, 3 * MiB},
        tr \in {<<0, 2>>, <<1, 2>>, <<2, 0>>}}
    \cup {[PolledInstance(m, <<0, 0>>, 3 * MiB, <<0, 2>>) EXCEPT !.is_connected = FALSE] :
             m \in SelectMetrics}
    \cup {PolledInstance(m, <<2, 2>>, 3 * MiB, <<0, 2>>) : m \in SelectMetrics}
    \cup {PolledInstance(m, <<0, 0>>, f, <<0, 2>>) : m \in SelectMetrics, f \in {0, MiB}}
    \cup {PolledInstance(m, <<0, 0>>, 3 * MiB, tr) :
             m \in SelectMetrics, tr \in {<<2, 2>>, <<3, 2>>}}

InitSelect ==
    /\ config \in {ConfigWith(cap, key) : cap \in {1, 2}, key \in SUPPORTED_SORT_KEYS}
    /\ instances \in [1..NumSelectInstances -> SelectInstances]
    /\ pending_torrents = <<PendingTorrent("u1", "n1", "")>>
    /\ announce_retry_counts = <<>>
    /\ pending_torrents_lock = "dispatch"
    /\ instances_lock = "free"
    /\ now = 0
    /\ status = IdleStatus
    /\ dispatch = [IdleDispatch EXCEPT !.pc = "select", !.snapshot = pending_torrents,
                                       !.k = 1]
    /\ reconnect = [k \in 1..NumSelectInstances |-> <<>>]
    /\ webhook = NoWebhook
    /\ rpc_log = {}
    /\ hist = [NoHistory(NumSelectInstances) EXCEPT !.enqueued["u1"] = 1]
    /\ scenario = NoScenario

NextSelect ==
    \/ ProcessTorrentsSelect /\ UNCHANGED scenario

SpecSelect == InitSelect /\ [][NextSelect]_vars

-----------------------------------------------------------------------------
(* SpecDispatch: front-end calls and the dispatch worker, the instances as  *)
(* a first status tick left them                                           *)

Payload(release_name, download_url, indexer, category) ==
    [json |-> TRUE, release_name |-> release_name, download_url |-> download_url,
     indexer |-> indexer, category |-> category]

DispatchPayloads ==
    {NoData,
     Payload("n1", "u1", "", ""),
     Payload("n2", "u1", "idx", "tv"),
     Payload("n1", "u2", "idx", ""),
     Payload("", "u1", "", ""),
     Payload("n1", "", "", "tv"),
     Payload("", "", "", "")}

\* <<download_url, release_name, category>> of the direct calls
DispatchCalls ==
    {<<"u1", "n1", "">>, <<"u1", "n2", "tv">>, <<"u2", "n1", "idx">>,
     <<"", "n1", "">>, <<"u1", "", "tv">>, <<"", "", "">>}

\* a connected instance after its first snapshot
SnapshotInstance(speed, free_space) ==
    [InstanceInfo("", 0, 1) EXCEPT
        !.is_connected = TRUE,
        !.success_metrics_count = 1,
        !.upload_speed = speed,
        !.free_space = free_space]

\* an instance with room, and a slower one at its reserve
DispatchInstances ==
    {SnapshotInstance(20 * BYTES_TO_KB, 2 * MiB),
     SnapshotInstance(10 * BYTES_TO_KB, MiB)}

InitDispatch ==
    /\ config \in {ConfigWith(cap, DEFAULT_PRIMARY_SORT_KEY) : cap \in 1..MaxCap}
    /\ instances \in [1..NumInstances -> DispatchInstances]
    /\ pending_torrents = <<>>
    /\ announce_retry_counts = <<>>
    /\ pending_torrents_lock = "free"
    /\ instances_lock = "free"
    /\ now = 0
    /\ status = IdleStatus
    /\ dispatch = IdleDispatch
    /\ reconnect = [k \in 1..NumInstances |-> <<>>]
    /\ webhook = NoWebhook
    /\ rpc_log = {}
    /\ hist = NoHistory(NumInstances)
    /\ scenario = NoScenario

TotalEnqueued == hist.enqueued["u1"] + hist.enqueued["u2"]

NextDispatch ==
    \/ \E data \in DispatchPayloads :
          TotalEnqueued < MaxEnqueued /\ WebhookHandler(data) /\ UNCHANGED scenario
    \/ \E c \in DispatchCalls :
          /\ TotalEnqueued < MaxEnqueued
          /\ AddPendingTorrentCall(c[1], c[2], c[3])
          /\ UNCHANGED scenario
    \/ ProcessTorrentsBegin /\ UNCHANGED scenario
    \/ ProcessTorrentsSelect /\ UNCHANGED scenario
    \/ \E result \in AddResults : ProcessTorrentsAdd(result) /\ UNCHANGED scenario
    \/ ResetTaskCounters /\ UNCHANGED scenario

SpecDispatch == InitDispatch /\ [][NextDispatch]_vars

-----------------------------------------------------------------------------
(* SpecScenario: dispatch passes over a queue filled beforehand, with the
   instances' metrics unchanged.  scenario keeps the state the run started
   from, the passes finished, whether an add failed and the instance each
   torrent was added to. *)

T1 == PendingTorrent("u1", "n1", "")
T2 == PendingTorrent("u2", "n1", "idx")

ScenarioQueues == {<<T1, T2>>, <<T2, T1>>, <<T1>>}

ScenarioInstances ==
    {SnapshotInstance(10 * BYTES_TO_KB, 2 * MiB),
     SnapshotInstance(20 * BYTES_TO_KB, 2 * MiB),
     SnapshotInstance(10 * BYTES_TO_KB, MiB)}

InitScenario ==
    /\ config \in {ConfigWith(cap, DEFAULT_PRIMARY_SORT_KEY) : cap \in 1..MaxCap}
    /\ instances \in {<<a, b>> : a \in ScenarioInstances, b \in ScenarioInstances}
    /\ pending_torrents \in ScenarioQueues
    /\ announce_retry_counts = <<>>
    /\ pending_torrents_lock = "free"
    /\ instances_lock = "free"
    /\ now = 0
    /\ status = IdleStatus
    /\ dispatch = IdleDispatch
    /\ reconnect = <<<<>>, <<>>>>
    /\ webhook = NoWebhook
    /\ rpc_log = {}
    /\ hist = [NoHistory(2) EXCEPT
                  !.enqueued = [u \in Urls |->
                                   IF \E k \in 1..Len(pending_torrents) :
                                         pending_torrents[k].download_url = u
                                   THEN 1 ELSE 0]]
    /\ scenario = [NoScenario EXCEPT !.start = <<config, instances, pending_torrents>>]

NextScenario ==
    \/ /\ scenario.passes < MaxPasses
       /\ ProcessTorrentsBegin
       /\ UNCHANGED scenario
    \/ ProcessTorrentsSelect /\ UNCHANGED scenario
    \/ \E result \in AddResults :
          /\ ProcessTorrentsAdd(result)
          /\ scenario' =
                IF AddSucceeds(result)
                THEN [scenario EXCEPT
                        !.placed[dispatch.snapshot[dispatch.k].download_url] =
                            dispatch.selected]
                ELSE [scenario EXCEPT !.add_failed = TRUE]
    \/ /\ ResetTaskCounters
       /\ scenario' = [scenario EXCEPT !.passes = @ + 1]

SpecScenario == InitScenario /\ [][NextScenario]_vars

-----------------------------------------------------------------------------
(* SpecHealth: the status worker, the reconnect scheduler and the reconnect
   threads, with the clock running.  Snapshots carry no torrents. *)

\* an instance after _connect_instance at startup, at time 0
StartedInstance(connected) ==
    [InstanceInfo("", 0, 1) EXCEPT !.is_connected = connected]

InitHealth ==
    /\ config = ConfigWith(1, DEFAULT_PRIMARY_SORT_KEY)
    /\ instances \in [1..NumInstances -> {StartedInstance(c) : c \in BOOLEAN}]
    /\ pending_torrents = <<>>
    /\ announce_retry_counts = <<>>
    /\ pending_torrents_lock = "free"
    /\ instances_lock = "free"
    /\ now = 0
    /\ status = IdleStatus
    /\ dispatch = IdleDispatch
    /\ reconnect = [k \in 1..NumInstances |-> <<>>]
    /\ webhook = NoWebhook
    /\ rpc_log = {}
    /\ hist = NoHistory(NumInstances)
    /\ scenario = NoScenario

\* the snapshots of one instance are counted up to MaxSnapshots
MaySnapshot(outcome) ==
    \/ outcome = "fail"
    \/ ~instances[status.i].is_connected
    \/ instances[status.i].success_metrics_count < MaxSnapshots

NextHealth ==
    \/ UpdateInstanceStatusBegin /\ UNCHANGED scenario
    \/ \E outcome \in {"ok", "retry_ok", "fail"} :
          /\ status.pc = "update"
          /\ MaySnapshot(outcome)
          /\ UpdateSingleInstance(outcome, NoMaindata, NoProbe, NoReplies)
          /\ UNCHANGED scenario
    \/ LogStatusSummary /\ UNCHANGED scenario
    \/ CheckAndScheduleReconnects /\ UNCHANGED scenario
    \/ \E i \in 1..NumInstances : \E n \in 1..Len(reconnect[i]) :
          \E outcome \in {"ok", "fail", "raise"} :
             AttemptReconnectLogin(i, n, outcome) /\ UNCHANGED scenario
    \/ \E i \in 1..NumInstances : \E n \in 1..Len(reconnect[i]) :
          AttemptReconnectSuccess(i, n) /\ UNCHANGED scenario
    \/ \E i \in 1..NumInstances : \E n \in 1..Len(reconnect[i]) :
          AttemptReconnectFailure(i, n) /\ UNCHANGED scenario
    \/ \E i \in 1..NumInstances : \E n \in 1..Len(reconnect[i]) :
          AsyncReconnectExcept(i, n) /\ UNCHANGED scenario
    \/ now < MaxNow /\ AdvanceTime /\ UNCHANGED scenario

SpecHealth == InitHealth /\ [][NextHealth]_vars

-----------------------------------------------------------------------------
(* SpecTraffic: the status worker polls connected instances from their first
   snapshot on; the traffic meter is read on the 30th. *)

\* traffic_limit of the configuration, in MiB: none, 1 MiB, 1 GiB
TrafficLimitsMb == {0, 1, 1024}

TrafficInstances ==
    {[InstanceInfo(MeterUrl, mb, 1) EXCEPT !.is_connected = TRUE] : mb \in TrafficLimitsMb}
    \cup {[InstanceInfo("", 1, 1) EXCEPT !.is_connected = TRUE]}

\* what the meter answers: out in MiB
TrafficProbes ==
    {[kind |-> "ok", out |-> o, trafficThrottled |-> t] : o \in {0, 2}, t \in BOOLEAN}
    \cup {[kind |-> "bad_value", out |-> 0, trafficThrottled |-> t] : t \in BOOLEAN}
    \cup {[kind |-> "error", out |-> 0, trafficThrottled |-> FALSE]}

TrafficMaindata ==
    [up_info_speed |-> 10 * BYTES_TO_KB, dl_info_speed |-> 0,
     free_space_on_disk |-> 2 * MiB, torrents |-> <<>>]

InitTraffic ==
    /\ config = ConfigWith(1, DEFAULT_PRIMARY_SORT_KEY)
    /\ instances \in [1..NumInstances -> TrafficInstances]
    /\ pending_torrents = <<>>
    /\ announce_retry_counts = <<>>
    /\ pending_torrents_lock = "free"
    /\ instances_lock = "free"
    /\ now = 0
    /\ status = IdleStatus
    /\ dispatch = IdleDispatch
    /\ reconnect = [k \in 1..NumInstances |-> <<>>]
    /\ webhook = NoWebhook
    /\ rpc_log = {}
    /\ hist = NoHistory(NumInstances)
    /\ scenario = NoScenario

NextTraffic ==
    \/ UpdateInstanceStatusBegin /\ UNCHANGED scenario
    \/ \E probe \in TrafficProbes :
          /\ status.pc = "update"
          /\ instances[status.i].success_metrics_count < MaxProbeSnapshots
          /\ UpdateSingleInstance("ok", TrafficMaindata, probe, NoReplies)
          /\ UNCHANGED scenario
    \/ LogStatusSummary /\ UNCHANGED scenario
    \/ CheckAndScheduleReconnects /\ UNCHANGED scenario

SpecTraffic == InitTraffic /\ [][NextTraffic]_vars

-----------------------------------------------------------------------------
(* Specification: the status worker around the second reading of the traffic
   meter.  An instance starts one snapshot before its first reading, or one
   before its second with the traffic_out that a first reading has left;
   scenario.start keeps the instances the run started from. *)

SecondProbeAt == 2 * TRAFFIC_CHECK_EVERY

\* an instance after n snapshots
AfterSnapshots(instance, n) ==
    [instance EXCEPT !.success_metrics_count = n,
                     !.upload_speed = TrafficMaindata.up_info_speed,
                     !.free_space = TrafficMaindata.free_space_on_disk]

ProbedInstances ==
    {AfterSnapshots(instance, TRAFFIC_CHECK_EVERY - 1) : instance \in TrafficInstances}
    \cup {AfterSnapshots(CheckInstanceTraffic(instance, probe), SecondProbeAt - 1) :
             instance \in TrafficInstances, probe \in TrafficProbes}

InitProbe ==
    /\ config = ConfigWith(1, DEFAULT_PRIMARY_SORT_KEY)
    /\ instances \in [1..NumInstances -> ProbedInstances]
    /\ pending_torrents = <<>>
    /\ announce_retry_counts = <<>>
    /\ pending_torrents_lock = "free"
    /\ instances_lock = "free"
    /\ now = 0
    /\ status = IdleStatus
    /\ dispatch = IdleDispatch
    /\ reconnect = [k \in 1..NumInstances |-> <<>>]
    /\ webhook = NoWebhook
    /\ rpc_log = {}
    /\ hist = NoHistory(NumInstances)
    /\ scenario = [NoScenario EXCEPT !.start = instances]

NextProbe ==
    \/ UpdateInstanceStatusBegin /\ UNCHANGED scenario
    \/ \E probe \in TrafficProbes :
          /\ status.pc = "update"
          /\ instances[status.i].success_metrics_count < SecondProbeAt
          /\ instances[status.i].success_metrics_count % TRAFFIC_CHECK_EVERY # 0
          /\ UpdateSingleInstance("ok", TrafficMaindata, probe, NoReplies)
          /\ UNCHANGED scenario
    \/ LogStatusSummary /\ UNCHANGED scenario
    \/ CheckAndScheduleReconnects /\ UNCHANGED scenario

SpecProbe == InitProbe /\ [][NextProbe]_vars

-----------------------------------------------------------------------------
(* SpecAnnounce: the status worker's snapshots carry torrents of every age
   around the limits of the announce supervisor.  The clock stands at
   AnnounceNow; added_on gives the age. *)

AnnounceNow == 200

\* unfinished torrents of age 1, 2, 130 and 131 s, finished ones of age 60 and 61 s
AnnounceTorrents ==
    {[added_on |-> AnnounceNow - age, progress |-> 50, state |-> "downloading",
      num_leechs |-> 0] : age \in {1, 2, 130, 131}}
    \cup {[added_on |-> AnnounceNow - age, progress |-> 100, state |-> "uploading",
           num_leechs |-> 0] : age \in {60, 61}}

\* the torrents of a snapshot: one record for each hash of a subset of Hashes
TorrentMaps ==
    {<<>>}
    \cup {[h \in {"h1"} |-> x] : x \in AnnounceTorrents}
    \cup {[h \in Hashes |-> IF h = "h1" THEN x ELSE y] :
             x \in AnnounceTorrents, y \in {z \in AnnounceTorrents : z.progress < 100}}

AnnounceMaindatas ==
    {[up_info_speed |-> 0, dl_info_speed |-> 0, free_space_on_disk |-> 2 * MiB,
      torrents |-> m] : m \in TorrentMaps}

InitAnnounce ==
    /\ config = ConfigWith(1, DEFAULT_PRIMARY_SORT_KEY)
    /\ instances = [k \in 1..NumInstances |-> StartedInstance(TRUE)]
    /\ pending_torrents = <<>>
    /\ announce_retry_counts = <<>>
    /\ pending_torrents_lock = "free"
    /\ instances_lock = "free"
    /\ now = AnnounceNow
    /\ status = IdleStatus
    /\ dispatch = IdleDispatch
    /\ reconnect = [k \in 1..NumInstances |-> <<>>]
    /\ webhook = NoWebhook
    /\ rpc_log = {}
    /\ hist = NoHistory(NumInstances)
    /\ scenario = NoScenario

NextAnnounce ==
    \/ UpdateInstanceStatusBegin /\ UNCHANGED scenario
    \/ \E outcome \in {"ok", "fail"} : \E maindata \in AnnounceMaindatas :
          /\ status.pc = "update"
          /\ instances[status.i].success_metrics_count < MaxTicks
          /\ UpdateSingleInstance(outcome, maindata, NoProbe, NoReplies)
          /\ UNCHANGED scenario
    \/ LogStatusSummary /\ UNCHANGED scenario
    \/ CheckAndScheduleReconnects /\ UNCHANGED scenario

SpecAnnounce == InitAnnounce /\ [][NextAnnounce]_vars

-----------------------------------------------------------------------------
(* SpecSupervisor: the announce supervisor of one instance, from counters that
   earlier observations have left, with tracker lists of every kind.
   scenario.snapshot keeps the maindata and the replies of the last snapshot
   the supervisor has seen and the counters it found, <<>> after a failed
   update; scenario.turn keeps the attempts of the last turn. *)

\* fast_announce_interval (within 2..10) and max_announce_retries
SupervisorConfigs ==
    {[ConfigWith(1, DEFAULT_PRIMARY_SORT_KEY) EXCEPT
         !.fast_announce_interval = c[1], !.max_announce_retries = c[2]] :
        c \in {<<3, 12>>, <<10, 12>>}}

\* announce_retry_counts after earlier observations of h1 (and one of h2)
SupervisorCounts ==
    {<<>>}
    \cup {[h \in {"h1"} |-> k] : k \in {5, 11, 19, 39}}
    \cup {[h \in Hashes |-> IF h = "h1" THEN k ELSE 1] : k \in {5, 11, 19, 39}}

Observed(age, progress, num_leechs) ==
    [added_on |-> AnnounceNow - age, progress |-> progress,
     state |-> IF progress = COMPLETE_PCT THEN "uploading" ELSE "downloading",
     num_leechs |-> num_leechs]

SupervisorTorrents ==
    {Observed(61, 50, 0), Observed(61, 90, 5), Observed(60, 100, 0),
     Observed(61, 100, 0), Observed(131, 50, 0), Observed(1, 50, 0)}

SupervisorMaindatas ==
    {[up_info_speed |-> 0, dl_info_speed |-> 0, free_space_on_disk |-> 2 * MiB,
      torrents |-> m] :
        m \in {<<>>}
               \cup {[h \in {"h1"} |-> x] : x \in SupervisorTorrents}
               \cup {[h \in Hashes |-> IF h = "h1" THEN x ELSE y] :
                        x \in SupervisorTorrents,
                        y \in {Observed(61, 50, 0), Observed(61, 100, 0)}}}

Tracker(url, tracker_status, msg) == [url |-> url, status |-> tracker_status, msg |-> msg]

\* what torrents_trackers returns, or that it raises
TrackerReplies ==
    {[raises |-> TRUE, trackers |-> <<>>]}
    \cup {[raises |-> FALSE, trackers |-> l] :
            l \in {<<>>,
                   <<Tracker("dht", 2, "")>>,
                   <<Tracker("udp://c:6969", 4, "")>>,
                   <<Tracker("PeX", 2, ""), Tracker("http://a/announce", 2, "ok")>>,
                   <<Tracker("http://a/announce", 4, "")>>,
                   <<Tracker("https://b/announce", 2, "Torrent not registered")>>}}

\* the replies to the RPCs for h1 and h2: what torrents_trackers gives, and
\* whether torrents_reannounce raises
SupervisorReplies ==
    {[h \in Hashes |->
         IF h = "h1"
         THEN [raises |-> r.raises, trackers |-> r.trackers, reannounce_raises |-> b]
         ELSE [raises |-> q.raises, trackers |-> q.trackers, reannounce_raises |-> FALSE]] :
        r \in TrackerReplies,
        b \in BOOLEAN,
        q \in {[raises |-> TRUE, trackers |-> <<>>],
               [raises |-> FALSE, trackers |-> <<Tracker("http://a/announce", 2, "ok")>>]}}

InitSupervisor ==
    /\ config \in SupervisorConfigs
    /\ instances = <<StartedInstance(TRUE)>>
    /\ pending_torrents = <<>>
    /\ announce_retry_counts \in SupervisorCounts
    /\ pending_torrents_lock = "free"
    /\ instances_lock = "free"
    /\ now = AnnounceNow
    /\ status = IdleStatus
    /\ dispatch = IdleDispatch
    /\ reconnect = <<<<>>>>
    /\ webhook = NoWebhook
    /\ rpc_log = {}
    /\ hist = [NoHistory(1) EXCEPT
                  !.observed = [h \in Hashes |->
                                   IF h \in DOMAIN announce_retry_counts
                                   THEN announce_retry_counts[h] ELSE 0]]
    /\ scenario = NoScenario

NextSupervisor ==
    \/ UpdateInstanceStatusBegin /\ UNCHANGED scenario
    \/ \E maindata \in SupervisorMaindatas : \E replies \in SupervisorReplies :
          /\ status.pc = "update"
          /\ instances[status.i].is_connected
          /\ instances[status.i].success_metrics_count < MaxObservations
          /\ UpdateSingleInstance("ok", maindata, NoProbe, replies)
          /\ scenario' = [scenario EXCEPT
                             !.snapshot = <<maindata, replies, announce_retry_counts>>,
                             !.turn = UpdateAttempts(instances[status.i], "ok")]
    \/ /\ status.pc = "update"
       /\ UpdateSingleInstance("fail", NoMaindata, NoProbe, NoReplies)
       /\ scenario' = [scenario EXCEPT
                          !.snapshot = <<>>,
                          !.turn = UpdateAttempts(instances[status.i], "fail")]
    \/ LogStatusSummary /\ UNCHANGED scenario
    \/ CheckAndScheduleReconnects /\ UNCHANGED scenario

SpecSupervisor == InitSupervisor /\ [][NextSupervisor]_vars

-----------------------------------------------------------------------------
(* SpecSystem: the webhook handlers, the dispatch worker, the status worker
   and the reconnect threads together.  reconnect_interval is 0, so a
   disconnected instance is due at the next scheduling; every snapshot reports
   the same metrics; a login returns or fails. *)

SystemConfig ==
    [ConfigWith(1, DEFAULT_PRIMARY_SORT_KEY) EXCEPT !.reconnect_interval = 0]

\* requests for two releases
SystemPayloads ==
    {Payload("n1", "u1", "", ""), Payload("n1", "u2", "idx", "")}

SystemMaindata ==
    [up_info_speed |-> 10 * BYTES_TO_KB, dl_info_speed |-> 0,
     free_space_on_disk |-> 2 * MiB, torrents |-> <<>>]

\* what torrents_add gives: "Ok.", or an exception
SystemAddResults ==
    {[raises |-> FALSE, body |-> <<"O", "k", ".">>], [raises |-> TRUE, body |-> <<>>]}

InitSystem ==
    /\ config = SystemConfig
    /\ instances \in [1..NumInstances -> {StartedInstance(c) : c \in BOOLEAN}]
    /\ pending_torrents = <<>>
    /\ announce_retry_counts = <<>>
    /\ pending_torrents_lock = "free"
    /\ instances_lock = "free"
    /\ now = 0
    /\ status = IdleStatus
    /\ dispatch = IdleDispatch
    /\ reconnect = [k \in 1..NumInstances |-> <<>>]
    /\ webhook = NoWebhook
    /\ rpc_log = {}
    /\ hist = NoHistory(NumInstances)
    /\ scenario = NoScenario

NextSystem ==
    \/ \E data \in SystemPayloads :
          TotalEnqueued < MaxEnqueued /\ WebhookHandler(data) /\ UNCHANGED scenario
    \/ ProcessTorrentsBegin /\ UNCHANGED scenario
    \/ ProcessTorrentsSelect /\ UNCHANGED scenario
    \/ \E result \in SystemAddResults : ProcessTorrentsAdd(result) /\ UNCHANGED scenario
    \/ ResetTaskCounters /\ UNCHANGED scenario
    \/ UpdateInstanceStatusBegin /\ UNCHANGED scenario
    \/ \E outcome \in {"ok", "fail"} :
          /\ status.pc = "update"
          /\ MaySnapshot(outcome)
          /\ UpdateSingleInstance(outcome, SystemMaindata, NoProbe, NoReplies)
          /\ UNCHANGED scenario
    \/ LogStatusSummary /\ UNCHANGED scenario
    \/ CheckAndScheduleReconnects /\ UNCHANGED scenario
    \/ \E i \in 1..NumInstances : \E n \in 1..Len(reconnect[i]) :
          \E outcome \in {"ok", "fail"} :
             AttemptReconnectLogin(i, n, outcome) /\ UNCHANGED scenario
    \/ \E i \in 1..NumInstances : \E n \in 1..Len(reconnect[i]) :
          AttemptReconnectSuccess(i, n) /\ UNCHANGED scenario
    \/ \E i \in 1..NumInstances : \E n \in 1..Len(reconnect[i]) :
          AttemptReconnectFailure(i, n) /\ UNCHANGED scenario

SpecSystem == InitSystem /\ [][NextSystem]_vars

-----------------------------------------------------------------------------
(* Specification: the status worker and the reconnect threads, with the
   attempts of the last turn of the status loop kept in scenario.turn. *)

NextTick ==
    \/ UpdateInstanceStatusBegin /\ UNCHANGED scenario
    \/ \E outcome \in {"ok", "retry_ok", "fail"} :
          /\ status.pc = "update"
          /\ MaySnapshot(outcome)
          /\ UpdateSingleInstance(outcome, NoMaindata, NoProbe, NoReplies)
          /\ scenario' = [scenario EXCEPT
                             !.turn = UpdateAttempts(instances[status.i], outcome)]
    \/ LogStatusSummary /\ UNCHANGED scenario
    \/ CheckAndScheduleReconnects /\ UNCHANGED scenario
    \/ \E i \in 1..NumInstances : \E n \in 1..Len(reconnect[i]) :
          \E outcome \in {"ok", "fail"} :
             AttemptReconnectLogin(i, n, outcome) /\ UNCHANGED scenario
    \/ \E i \in 1..NumInstances : \E n \in 1..Len(reconnect[i]) :
          AttemptReconnectSuccess(i, n) /\ UNCHANGED scenario
    \/ \E i \in 1..NumInstances : \E n \in 1..Len(reconnect[i]) :
          AttemptReconnectFailure(i, n) /\ UNCHANGED scenario
    \/ now < MaxNow /\ AdvanceTime /\ UNCHANGED scenario

SpecTick == InitHealth /\ [][NextTick]_vars

-----------------------------------------------------------------------------
(* Specification: the status worker, the reconnect scheduler, the reconnect
   threads and the clock.  scenario.down[i] is the time at which instance i
   was last found down and scenario.cause[i] by what: the failed connect at
   startup, the second failed update of a tick ("status"), or the end of a
   reconnect thread that gave up ("task"); they are -1 and "none" once a
   reconnect thread has been started for it. *)

ReconnectConfigs ==
    {[ConfigWith(1, DEFAULT_PRIMARY_SORT_KEY) EXCEPT !.reconnect_interval = interval] :
        interval \in {1, 2}}

InitReconnect ==
    /\ config \in ReconnectConfigs
    /\ instances \in [1..NumInstances -> {StartedInstance(c) : c \in BOOLEAN}]
    /\ pending_torrents = <<>>
    /\ announce_retry_counts = <<>>
    /\ pending_torrents_lock = "free"
    /\ instances_lock = "free"
    /\ now = 0
    /\ status = IdleStatus
    /\ dispatch = IdleDispatch
    /\ reconnect = [k \in 1..NumInstances |-> <<>>]
    /\ webhook = NoWebhook
    /\ rpc_log = {}
    /\ hist = NoHistory(NumInstances)
    /\ scenario = [NoScenario EXCEPT
                      !.down = [k \in 1..NumInstances |->
                                   IF instances[k].is_connected THEN -1 ELSE 0],
                      !.cause = [k \in 1..NumInstances |->
                                    IF instances[k].is_connected THEN "none"
                                    ELSE "startup"]]

\* instance i is found down now
FoundDown(i, cause) ==
    scenario' = [scenario EXCEPT !.down[i] = now, !.cause[i] = cause]

\* the instances that get a reconnect thread in this step
Spawned == {k \in 1..NumInstances : Len(reconnect'[k]) > Len(reconnect[k])}

NextReconnect ==
    \/ UpdateInstanceStatusBegin /\ UNCHANGED scenario
    \/ /\ status.pc = "update"
       /\ MaySnapshot("ok")
       /\ UpdateSingleInstance("ok", NoMaindata, NoProbe, NoReplies)
       /\ UNCHANGED scenario
    \/ /\ status.pc = "update"
       /\ UpdateSingleInstance("fail", NoMaindata, NoProbe, NoReplies)
       /\ IF instances[status.i].is_connected THEN FoundDown(status.i, "status")
          ELSE UNCHANGED scenario
    \/ LogStatusSummary /\ UNCHANGED scenario
    \/ /\ CheckAndScheduleReconnects
       /\ scenario' = [scenario EXCEPT
                          !.down = [k \in 1..NumInstances |->
                                       IF k \in Spawned THEN -1 ELSE @[k]],
                          !.cause = [k \in 1..NumInstances |->
                                        IF k \in Spawned THEN "none" ELSE @[k]]]
    \/ \E i \in 1..NumInstances : \E n \in 1..Len(reconnect[i]) :
          \E outcome \in {"ok", "fail", "raise"} :
             AttemptReconnectLogin(i, n, outcome) /\ UNCHANGED scenario
    \/ \E i \in 1..NumInstances : \E n \in 1..Len(reconnect[i]) :
          AttemptReconnectSuccess(i, n) /\ UNCHANGED scenario
    \/ \E i \in 1..NumInstances : \E n \in 1..Len(reconnect[i]) :
          AttemptReconnectFailure(i, n) /\ FoundDown(i, "task")
    \/ \E i \in 1..NumInstances : \E n \in 1..Len(reconnect[i]) :
          AsyncReconnectExcept(i, n) /\ FoundDown(i, "task")
    \/ now < MaxNow /\ AdvanceTime /\ UNCHANGED scenario

SpecReconnect == InitReconnect /\ [][NextReconnect]_vars

\* a turn of the loop of _update_instance_status, which ends in releasing
\* instances_lock
StatusTurn ==
    \/ /\ status.pc = "update"
       /\ MaySnapshot("ok")
       /\ UpdateSingleInstance("ok", NoMaindata, NoProbe, NoReplies)
       /\ UNCHANGED scenario
    \/ /\ status.pc = "update"
       /\ UpdateSingleInstance("fail", NoMaindata, NoProbe, NoReplies)
       /\ IF instances[status.i].is_connected THEN FoundDown(status.i, "status")
          ELSE UNCHANGED scenario

\* a login of a reconnect thread of instance i returns or raises
TaskLogin(i) ==
    \E n \in 1..Len(reconnect[i]) : \E outcome \in {"ok", "fail", "raise"} :
        AttemptReconnectLogin(i, n, outcome) /\ UNCHANGED scenario

\* a reconnect thread of instance i takes instances_lock and ends
TaskEnd(i) ==
    \E n \in 1..Len(reconnect[i]) :
        \/ AttemptReconnectSuccess(i, n) /\ UNCHANGED scenario
        \/ AttemptReconnectFailure(i, n) /\ FoundDown(i, "task")
        \/ AsyncReconnectExcept(i, n) /\ FoundDown(i, "task")

\* Fair scheduling: the status worker ends its tick, which holds
\* instances_lock; every login returns or raises; a reconnect thread that
\* waits for instances_lock gets it, the status worker sleeping between ticks
\* with the lock free.
FairReconnect ==
    /\ WF_vars(StatusTurn)
    /\ \A i \in 1..NumInstances : WF_vars(TaskLogin(i))
    /\ \A i \in 1..NumInstances : SF_vars(TaskEnd(i))

SpecReconnectFair == SpecReconnect /\ FairReconnect

-----------------------------------------------------------------------------
(* Specification: the status worker and the reconnect threads while a torrent
   of age 129 s comes and goes in the snapshots and the clock runs past its
   130 s.  The fair specification lets the status loop, the clock, the logins
   and the reconnect threads go on. *)

\* h1, unfinished, added 129 s before the start
EvictionMaindatas ==
    {[up_info_speed |-> 0, dl_info_speed |-> 0, free_space_on_disk |-> 2 * MiB,
      torrents |-> m] : m \in {<<>>, [h \in {"h1"} |-> Observed(129, 50, 0)]}}

InitEviction ==
    /\ config = SystemConfig
    /\ instances = [k \in 1..NumInstances |-> StartedInstance(TRUE)]
    /\ pending_torrents = <<>>
    /\ announce_retry_counts = <<>>
    /\ pending_torrents_lock = "free"
    /\ instances_lock = "free"
    /\ now = AnnounceNow
    /\ status = IdleStatus
    /\ dispatch = IdleDispatch
    /\ reconnect = [k \in 1..NumInstances |-> <<>>]
    /\ webhook = NoWebhook
    /\ rpc_log = {}
    /\ hist = NoHistory(NumInstances)
    /\ scenario = NoScenario

EvictionSnapshot ==
    \E maindata \in EvictionMaindatas :
       /\ status.pc = "update"
       /\ instances[status.i].is_connected
       /\ instances[status.i].success_metrics_count < MaxTicks
       /\ UpdateSingleInstance("ok", maindata, NoProbe, NoReplies)

EvictionClock == now < AnnounceNow + MaxElapsed /\ AdvanceTime

NextEviction ==
    \/ UpdateInstanceStatusBegin /\ UNCHANGED scenario
    \/ EvictionSnapshot /\ UNCHANGED scenario
    \/ /\ status.pc = "update"
       /\ UpdateSingleInstance("fail", NoMaindata, NoProbe, NoReplies)
       /\ UNCHANGED scenario
    \/ LogStatusSummary /\ UNCHANGED scenario
    \/ CheckAndScheduleReconnects /\ UNCHANGED scenario
    \/ \E i \in 1..NumInstances : \E n \in 1..Len(reconnect[i]) :
          \E outcome \in {"ok", "fail"} :
             AttemptReconnectLogin(i, n, outcome) /\ UNCHANGED scenario
    \/ \E i \in 1..NumInstances : \E n \in 1..Len(reconnect[i]) :
          AttemptReconnectSuccess(i, n) /\ UNCHANGED scenario
    \/ \E i \in 1..NumInstances : \E n \in 1..Len(reconnect[i]) :
          AttemptReconnectFailure(i, n) /\ UNCHANGED scenario
    \/ EvictionClock /\ UNCHANGED scenario

SpecEviction == InitEviction /\ [][NextEviction]_vars

\* a step of the status loop
EvictionStatusStep ==
    /\ \/ UpdateInstanceStatusBegin
       \/ EvictionSnapshot
       \/ UpdateSingleInstance("fail", NoMaindata, NoProbe, NoReplies)
       \/ LogStatusSummary
       \/ CheckAndScheduleReconnects
    /\ UNCHANGED scenario

\* Fair scheduling: the status loop goes on, the clock runs, every login
\* returns or raises, and a reconnect thread that waits for instances_lock
\* gets it.
FairEviction ==
    /\ WF_vars(EvictionStatusStep)
    /\ WF_vars(EvictionClock /\ UNCHANGED scenario)
    /\ \A i \in 1..NumInstances : WF_vars(TaskLogin(i))
    /\ \A i \in 1..NumInstances : SF_vars(TaskEnd(i))

SpecEvictionFair == SpecEviction /\ FairEviction

-----------------------------------------------------------------------------
(* Specification: the first moments of the program.  Every instance is as
   _init_instances leaves it, connected or not, with a reserved_space of 0 or
   1 MiB; a release is pending or arrives; the dispatch worker, the status
   worker and the reconnect threads run. *)

\* an instance after _init_instances: the login succeeded or failed
StartupInstance(connected, reserved_space_mb) ==
    [InstanceInfo("", 0, reserved_space_mb) EXCEPT !.is_connected = connected]

StartupInstances ==
    {StartupInstance(c, mb) : c \in BOOLEAN, mb \in {0, 1}}

StartupPayloads == {Payload("n1", "u1", "", "")}

InitStartup ==
    /\ config = SystemConfig
    /\ instances \in [1..NumInstances -> StartupInstances]
    /\ pending_torrents = <<>>
    /\ announce_retry_counts = <<>>
    /\ pending_torrents_lock = "free"
    /\ instances_lock = "free"
    /\ now = 0
    /\ status = IdleStatus
    /\ dispatch = IdleDispatch
    /\ reconnect = [k \in 1..NumInstances |-> <<>>]
    /\ webhook = NoWebhook
    /\ rpc_log = {}
    /\ hist = NoHistory(NumInstances)
    /\ scenario = NoScenario

NextStartup ==
    \/ \E data \in StartupPayloads :
          TotalEnqueued < MaxEnqueued /\ WebhookHandler(data) /\ UNCHANGED scenario
    \/ ProcessTorrentsBegin /\ UNCHANGED scenario
    \/ ProcessTorrentsSelect /\ UNCHANGED scenario
    \/ \E result \in SystemAddResults : ProcessTorrentsAdd(result) /\ UNCHANGED scenario
    \/ ResetTaskCounters /\ UNCHANGED scenario
    \/ UpdateInstanceStatusBegin /\ UNCHANGED scenario
    \/ \E outcome \in {"ok", "fail"} :
          /\ status.pc = "update"
          /\ MaySnapshot(outcome)
          /\ UpdateSingleInstance(outcome, SystemMaindata, NoProbe, NoReplies)
          /\ UNCHANGED scenario
    \/ LogStatusSummary /\ UNCHANGED scenario
    \/ CheckAndScheduleReconnects /\ UNCHANGED scenario
    \/ \E i \in 1..NumInstances : \E n \in 1..Len(reconnect[i]) :
          AttemptReconnectLogin(i, n, "ok") /\ UNCHANGED scenario
    \/ \E i \in 1..NumInstances : \E n \in 1..Len(reconnect[i]) :
          AttemptReconnectSuccess(i, n) /\ UNCHANGED scenario

SpecStartup == InitStartup /\ [][NextStartup]_vars

-----------------------------------------------------------------------------
(* Specification: the whole program with debug_add_stopped set or not.  The
   snapshots carry an unfinished torrent of age 61 s or none;
   scenario.snapshot keeps the last snapshot the status worker has taken and
   scenario.add_params the arguments of the last call of torrents_add. *)

DebugConfigs ==
    {[SystemConfig EXCEPT !.debug_add_stopped = b] : b \in BOOLEAN}

DebugPayloads ==
    {Payload("n1", "u1", "", "tv"), Payload("n1", "u2", "idx", "")}

DebugMaindatas ==
    {[SystemMaindata EXCEPT !.torrents = m] :
        m \in {<<>>, [h \in {"h1"} |-> Observed(61, 50, 0)]}}

\* torrents_trackers raises, or gives one tracker that does not work
DebugReplies ==
    {NoReplies,
     [h \in Hashes |-> [raises |-> FALSE,
                        trackers |-> <<Tracker("http://a/announce", 4, "")>>]]}

InitDebug ==
    /\ config \in DebugConfigs
    /\ instances = [k \in 1..NumInstances |-> StartedInstance(TRUE)]
    /\ pending_torrents = <<>>
    /\ announce_retry_counts = <<>>
    /\ pending_torrents_lock = "free"
    /\ instances_lock = "free"
    /\ now = AnnounceNow
    /\ status = IdleStatus
    /\ dispatch = IdleDispatch
    /\ reconnect = [k \in 1..NumInstances |-> <<>>]
    /\ webhook = NoWebhook
    /\ rpc_log = {}
    /\ hist = NoHistory(NumInstances)
    /\ scenario = NoScenario

NextDebug ==
    \/ \E data \in DebugPayloads :
          TotalEnqueued < MaxEnqueued /\ WebhookHandler(data) /\ UNCHANGED scenario
    \/ ProcessTorrentsBegin /\ UNCHANGED scenario
    \/ ProcessTorrentsSelect /\ UNCHANGED scenario
    \/ \E result \in SystemAddResults :
          /\ ProcessTorrentsAdd(result)
          /\ scenario' = [scenario EXCEPT
                             !.add_params =
                                 AddParams(config, dispatch.snapshot[dispatch.k])]
    \/ ResetTaskCounters /\ UNCHANGED scenario
    \/ UpdateInstanceStatusBegin /\ UNCHANGED scenario
    \/ \E maindata \in DebugMaindatas : \E replies \in DebugReplies :
          /\ status.pc = "update"
          /\ instances[status.i].success_metrics_count < MaxTicks
          /\ UpdateSingleInstance("ok", maindata, NoProbe, replies)
          /\ scenario' = [scenario EXCEPT !.snapshot = maindata]
    \/ LogStatusSummary /\ UNCHANGED scenario
    \/ CheckAndScheduleReconnects /\ UNCHANGED scenario

SpecDebug == InitDebug /\ [][NextDebug]_vars

-----------------------------------------------------------------------------
(* Specification: the webhook and the dispatch worker over several passes,
   with the queue each pass leaves behind kept in scenario.leftover. *)

MaxOrderEnqueued == 3

\* requests for two releases
OrderPayloads ==
    {Payload("n1", "u1", "", ""), Payload("n1", "u2", "idx", "")}

\* the step that ends a pass notes the queue it leaves
RecordLeftover ==
    scenario' = IF dispatch.pc # "reset" /\ dispatch'.pc = "reset"
                THEN [scenario EXCEPT !.leftover = pending_torrents']
                ELSE scenario

NextOrder ==
    \/ \E data \in OrderPayloads :
          TotalEnqueued < MaxOrderEnqueued /\ WebhookHandler(data) /\ RecordLeftover
    \/ ProcessTorrentsBegin /\ RecordLeftover
    \/ ProcessTorrentsSelect /\ RecordLeftover
    \/ \E result \in AddResults : ProcessTorrentsAdd(result) /\ RecordLeftover
    \/ ResetTaskCounters /\ RecordLeftover

SpecOrder == InitDispatch /\ [][NextOrder]_vars

-----------------------------------------------------------------------------
(* Specification: the webhook and the dispatch worker over any number of
   passes, with add calls that fail.  scenario.retries[u] counts the failed
   add calls for the pending torrent with download_url u. *)

MaxFailedAdds == 3

\* the add call of this step is for the torrent with this download_url
AddedUrl == dispatch.snapshot[dispatch.k].download_url

NextRetry ==
    \/ \E data \in OrderPayloads :
          TotalEnqueued < MaxEnqueued /\ WebhookHandler(data) /\ UNCHANGED scenario
    \/ ProcessTorrentsBegin /\ UNCHANGED scenario
    \/ ProcessTorrentsSelect /\ UNCHANGED scenario
    \/ \E result \in AddResults :
          /\ AddSucceeds(result)
          /\ ProcessTorrentsAdd(result)
          /\ scenario' = [scenario EXCEPT !.retries[AddedUrl] = 0]
    \/ \E result \in AddResults :
          /\ ~AddSucceeds(result)
          /\ dispatch.pc = "add"
          /\ scenario.retries[AddedUrl] < MaxFailedAdds
          /\ ProcessTorrentsAdd(result)
          /\ scenario' = [scenario EXCEPT !.retries[AddedUrl] = @ + 1]
    \/ ResetTaskCounters /\ UNCHANGED scenario

SpecRetry == InitDispatch /\ [][NextRetry]_vars

-----------------------------------------------------------------------------
(* Claims on the selection *)

\* the eligibility predicate, on instance k of the current state
Eligible(k) ==
    /\ instances[k].is_connected = TRUE
    /\ instances[k].new_tasks_count < config.max_new_tasks_per_instance
    /\ instances[k].free_space > instances[k].reserved_space
    /\ \/ instances[k].traffic_out = 0
       \/ instances[k].traffic_limit = 0
       \/ instances[k].traffic_out < instances[k].traffic_limit

EligibleSet == {k \in 1..Len(instances) : Eligible(k)}

\* the primary value of instance k under the configured key
Primary(k) ==
    CASE config.primary_sort_key = "download_speed" -> instances[k].download_speed
      [] config.primary_sort_key = "active_downloads" -> instances[k].active_downloads
      [] OTHER -> instances[k].upload_speed

\* instance j comes strictly before instance k in the ordering
StrictlyBefore(j, k) ==
    \/ Primary(j) < Primary(k)
    \/ /\ Primary(j) = Primary(k)
       /\ instances[j].total_added_tasks_count < instances[k].total_added_tasks_count
    \/ /\ Primary(j) = Primary(k)
       /\ instances[j].total_added_tasks_count = instances[k].total_added_tasks_count
       /\ instances[j].free_space > instances[k].free_space

\* the dispatch worker has just returned from _select_best_instance
Selected == dispatch.pc = "add"
NothingSelected == dispatch.pc = "reset" /\ dispatch.broke

\* C4: _select_best_instance returns an eligible instance that no eligible
\* instance strictly precedes in (primary, total_added_tasks, -free_space): among
\* equal primaries it has the fewest total_added_tasks, among those the most free
\* space; and it returns nothing exactly when no instance is eligible.
C4_SelectsMinimum ==
    /\ Selected =>
          /\ dispatch.selected \in EligibleSet
          /\ \A j \in EligibleSet : ~StrictlyBefore(j, dispatch.selected)
          /\ \A j \in EligibleSet :
                Primary(j) = Primary(dispatch.selected) =>
                   /\ instances[dispatch.selected].total_added_tasks_count
                         <= instances[j].total_added_tasks_count
                   /\ instances[dispatch.selected].total_added_tasks_count
                         = instances[j].total_added_tasks_count
                      => instances[dispatch.selected].free_space >= instances[j].free_space
    /\ NothingSelected => EligibleSet = {}

\* C4's case: two eligible instances tie on primary and total_added_tasks and
\* the one with more free space is selected
C4_Witness ==
    /\ Selected
    /\ \E j \in EligibleSet :
          /\ j # dispatch.selected
          /\ Primary(j) = Primary(dispatch.selected)
          /\ instances[j].total_added_tasks_count
                = instances[dispatch.selected].total_added_tasks_count
          /\ instances[j].free_space < instances[dispatch.selected].free_space

\* C7: the instance _select_best_instance returns is connected, below the
\* per-pass cap, has free_space strictly above reserved_space and traffic within
\* its limit; an instance with free_space <= reserved_space is never the one
\* selected.
C7_SelectedIsEligible ==
    Selected =>
       LET I == instances[dispatch.selected]
       IN  /\ I.is_connected
           /\ I.new_tasks_count < config.max_new_tasks_per_instance
           /\ I.free_space > I.reserved_space
           /\ ~(I.free_space <= I.reserved_space)
           /\ (I.traffic_out = 0 \/ I.traffic_limit = 0 \/ I.traffic_out < I.traffic_limit)

\* C7's case: an instance with free_space <= reserved_space has a smaller
\* primary value than the selected one
C7_Witness ==
    /\ Selected
    /\ \E j \in 1..Len(instances) :
          /\ instances[j].is_connected
          /\ instances[j].free_space <= instances[j].reserved_space
          /\ Primary(j) < Primary(dispatch.selected)

-----------------------------------------------------------------------------
(* Claims on the ingest queue and the dispatch pass *)

\* entries of the pending queue with this download_url
InQueue(u) == Cardinality({k \in 1..Len(pending_torrents) :
                              pending_torrents[k].download_url = u})

\* C2: the pending queue never holds two entries with the same download_url,
\* whatever the interleaving of enqueues and dispatch passes.
C2_NoDuplicateUrls ==
    \A j \in 1..Len(pending_torrents) : \A k \in 1..Len(pending_torrents) :
        j # k => pending_torrents[j].download_url # pending_torrents[k].download_url

\* C2's case: a call for a pending url has been made and a dispatch pass runs
\* over a queue of two
C2_Witness ==
    /\ hist.dropped # <<>>
    /\ Len(pending_torrents) = 2
    /\ pending_torrents_lock = "dispatch"

TotalAdded == SeqSum([k \in 1..Len(instances) |-> instances[k].total_added_tasks_count])

\* each enqueued torrent is pending or was handed out once, and the handoffs
\* are the instances' total_added_tasks_count
RoundTripState ==
    /\ \A u \in Urls : hist.enqueued[u] = hist.handed[u] + InQueue(u)
    /\ \A u \in Urls : InQueue(u) <= 1
    /\ TotalAdded = hist.handed["u1"] + hist.handed["u2"]

\* a step hands a torrent out exactly when it takes it from the queue, and then
\* one instance's total_added_tasks_count grows by one and no other changes
HandoffStep ==
    /\ \A u \in Urls :
          /\ hist.handed'[u] \in {hist.handed[u], hist.handed[u] + 1}
          /\ InQueue(u)' < InQueue(u) <=> hist.handed'[u] = hist.handed[u] + 1
    /\ \A u \in Urls :
          hist.handed'[u] = hist.handed[u] + 1 =>
             \E i \in 1..Len(instances) :
                /\ instances'[i].total_added_tasks_count
                      = instances[i].total_added_tasks_count + 1
                /\ \A j \in 1..Len(instances) : j # i =>
                      instances'[j].total_added_tasks_count
                         = instances[j].total_added_tasks_count
    /\ (\A u \in Urls : hist.handed'[u] = hist.handed[u]) =>
          \A j \in 1..Len(instances) :
             instances'[j].total_added_tasks_count = instances[j].total_added_tasks_count

\* the step that ends a pass with a torrent left in the queue
PassLeavesTorrent ==
    /\ dispatch.pc # "reset"
    /\ dispatch'.pc = "reset"
    /\ pending_torrents' # <<>>

\* C3 as stated: every accepted torrent is handed to exactly one instance,
\* whose total_added_tasks_count grows by one, or is still pending because no
\* instance is eligible; it is never handed out twice and never leaves the
\* queue without a successful add.
C3_AsStated ==
    /\ [](RoundTripState)
    /\ [][HandoffStep /\ (PassLeavesTorrent => EligibleSet' = {})]_vars

\* C3 (amended): every accepted torrent is handed to exactly one instance,
\* whose total_added_tasks_count grows by one, or is still pending because no
\* instance is eligible or because its add call failed; it is never handed out
\* twice and never leaves the queue without a successful add.
C3_RoundTrip ==
    /\ [](RoundTripState)
    /\ [][HandoffStep /\ (PassLeavesTorrent =>
                             \/ dispatch'.broke /\ EligibleSet' = {}
                             \/ dispatch'.failed)]_vars

\* C3's case: a pass has handed one torrent out and left the other pending
\* after a failed add, with an instance still eligible
C3_Witness ==
    /\ dispatch.pc = "reset"
    /\ dispatch.failed
    /\ ~dispatch.broke
    /\ hist.handed["u1"] = 1
    /\ InQueue("u2") = 1
    /\ EligibleSet # {}

\* C6: new_tasks_count never exceeds max_new_tasks_per_instance.
C6_CapRespected ==
    \A k \in 1..Len(instances) :
        instances[k].new_tasks_count <= config.max_new_tasks_per_instance

\* C6's case: an instance took its full share of a pass and was passed over
\* for the next torrent for that reason alone, and the pass stopped
C6_Witness ==
    /\ dispatch.broke
    /\ pending_torrents # <<>>
    /\ \E k \in 1..Len(instances) :
          /\ instances[k].new_tasks_count = config.max_new_tasks_per_instance
          /\ instances[k].is_connected
          /\ instances[k].free_space > instances[k].reserved_space
          /\ IsTrafficWithinLimit(instances[k])

\* the arguments of the calls of add_pending_torrent
CallArguments ==
    DispatchCalls \cup
    {<<d.download_url, d.release_name, StrOr(d.category, d.indexer)>> :
        d \in {x \in DispatchPayloads : x.json /\ ExtractTorrentData(x) # <<>>}}

\* what a call of add_pending_torrent with the arguments c does to the queue
C9_EnqueueStep ==
    \A c \in CallArguments :
        Enqueue(c[1], c[2], c[3]) =>
           IF c[1] = "" \/ c[2] = "" THEN pending_torrents' = pending_torrents
           ELSE IF InQueue(c[1]) > 0 THEN pending_torrents' = pending_torrents
           ELSE /\ Len(pending_torrents') = Len(pending_torrents) + 1
                /\ SubSeq(pending_torrents', 1, Len(pending_torrents)) = pending_torrents
                /\ pending_torrents'[Len(pending_torrents')] =
                       [download_url |-> c[1], release_name |-> c[2], category |-> c[3]]

\* C9: a call of add_pending_torrent with an empty download_url or release_name,
\* or with the download_url of a pending entry, leaves the queue as it is (same
\* entries, same order, the pending entry's name and category kept); any other
\* call appends exactly one entry, with its arguments, at the tail.
C9_EnqueueIdempotent == [][C9_EnqueueStep]_vars

\* C9's case: u1 is pending under the name n1 after a call for u1 under the
\* name n2 was made
C9_Witness ==
    /\ hist.dropped = <<"u1", "n2", "tv">>
    /\ pending_torrents = <<PendingTorrent("u1", "n1", "")>>

-----------------------------------------------------------------------------
(* Claims on the dispatch scenario *)

\* two connected instances A (10 KB/s) and B (20 KB/s) with room and no traffic
\* limit, nothing added yet, one task per instance and pass, T1 queued before T2
SimpleDispatch ==
    scenario.start = <<ConfigWith(1, "upload_speed"),
                       <<SnapshotInstance(10 * BYTES_TO_KB, 2 * MiB),
                         SnapshotInstance(20 * BYTES_TO_KB, 2 * MiB)>>,
                       <<T1, T2>>>>

\* n passes are over and every add succeeded
AfterPass(n) ==
    /\ scenario.passes = n
    /\ dispatch.pc = "idle"
    /\ ~scenario.add_failed

\* C5 as stated: after one pass T1 is on A and T2 is still pending, after the
\* second pass T2 is on A, total_added[A] = 2 and total_added[B] = 0.
C5_AsStated ==
    SimpleDispatch =>
       /\ AfterPass(1) => /\ scenario.placed["u1"] = 1
                          /\ pending_torrents = <<T2>>
       /\ AfterPass(2) => /\ scenario.placed["u2"] = 1
                          /\ instances[1].total_added_tasks_count = 2
                          /\ instances[2].total_added_tasks_count = 0

\* C5 (amended): after one pass T1 is on A and T2 is on B (A is at its cap, B is
\* eligible) and the queue is empty; a second pass adds nothing; then
\* total_added[A] = 1 and total_added[B] = 1.
C5_SimpleDispatch ==
    SimpleDispatch =>
       \A n \in 1..MaxPasses :
          AfterPass(n) => /\ scenario.placed = [u \in Urls |-> IF u = "u1" THEN 1 ELSE 2]
                          /\ pending_torrents = <<>>
                          /\ instances[1].total_added_tasks_count = 1
                          /\ instances[2].total_added_tasks_count = 1

\* C5's case: the second pass of the scenario is over
C5_Witness ==
    /\ SimpleDispatch
    /\ AfterPass(2)
    /\ scenario.placed["u2"] = 2

-----------------------------------------------------------------------------
(* Claims on the instances' health *)

\* C1: under every interleaving of the status worker, the reconnect scheduler
\* and the reconnect threads, no instance is connected and reconnecting at the
\* same time.
C1_NotConnectedAndReconnecting ==
    \A k \in 1..Len(instances) :
        ~(instances[k].is_connected /\ instances[k].is_reconnecting)

\* C1's case: a reconnect thread has logged in and waits for instances_lock
\* while the status worker polls another instance
C1_Witness ==
    /\ instances_lock = "status"
    /\ \E i \in 1..Len(instances) :
          /\ instances[i].is_reconnecting
          /\ reconnect[i] # <<>>
          /\ reconnect[i][1].pc = "success"
          /\ \E j \in 1..Len(instances) : j # i /\ instances[j].is_connected

-----------------------------------------------------------------------------
(* Claims on the traffic probe *)

\* C8: after a probe that returned trafficThrottled = true, traffic_out holds
\* the throttle sentinel and, whatever positive traffic_limit the instance
\* has, the instance is not eligible for dispatch until its next probe.
C8_ThrottledIsIneligible ==
    \A k \in 1..Len(instances) :
        (hist.last_probe[k].kind = "ok" /\ hist.last_probe[k].trafficThrottled) =>
           /\ instances[k].traffic_out = THROTTLED_TRAFFIC_OUT
           /\ instances[k].traffic_limit > 0 => ~IsAvailable(config, instances[k])

-----------------------------------------------------------------------------
(* Claims on the announce counters *)

\* C10: every info-hash in announce_retry_counts was observed at least once
\* with 2 <= age <= 130 and not (completed and age > 60), and its counter is
\* the number of such observations since it was last evicted, a positive
\* integer.
C10_CountsObservations ==
    \A h \in DOMAIN announce_retry_counts :
        /\ announce_retry_counts[h] = hist.observed[h]
        /\ announce_retry_counts[h] >= 1

\* C10's case: h2 was counted on three snapshots; h1 is at 1 again after
\* several snapshots
C10_Witness ==
    /\ DOMAIN announce_retry_counts = Hashes
    /\ announce_retry_counts["h1"] = 1
    /\ announce_retry_counts["h2"] = 3
    /\ \A k \in 1..Len(instances) : instances[k].success_metrics_count >= 2

-----------------------------------------------------------------------------
(* Claims on the announce rules *)

Reannounce(h) == [op |-> "reannounce", hash |-> h]
TrackerFetch(h) == [op |-> "trackers", hash |-> h]

\* the torrents of the last snapshot the supervisor has seen, and the replies
\* of torrents_trackers in it
Seen == IF scenario.snapshot = <<>> THEN <<>> ELSE scenario.snapshot[1].torrents
Replies == scenario.snapshot[2]

Age(h) == now - Seen[h].added_on
Completed(h) == Seen[h].progress = 100

\* the observation of h is one the eviction rule lets through
Watched(h) ==
    /\ 2 <= Age(h)
    /\ Age(h) <= 130
    /\ ~(Completed(h) /\ Age(h) > 60)

\* k is one of the two counts of the forced re-announce
ForcedAt(k) ==
    \/ k = 60 \div config.fast_announce_interval
    \/ k = 120 \div config.fast_announce_interval

\* C11: on the observation that brings an unfinished torrent's counter to
\* floor(60 / fast_announce_interval) or floor(120 / fast_announce_interval), a
\* re-announce is issued for it whatever its trackers say and whether or not
\* the counter has reached max_announce_retries, and its tracker list is not
\* fetched.
C11_ForcedReannounce ==
    \A h \in DOMAIN Seen :
        (/\ Watched(h)
         /\ ~Completed(h)
         /\ ForcedAt(announce_retry_counts[h]))
        => /\ Reannounce(h) \in rpc_log
           /\ TrackerFetch(h) \notin rpc_log

\* C11's case: the 40th observation at interval 3, beyond max_announce_retries
\* and with working trackers, has issued the re-announce
C11_Witness ==
    /\ config.fast_announce_interval = 3
    /\ "h1" \in DOMAIN Seen
    /\ Seen["h1"] = Observed(61, 90, 5)
    /\ ~Replies["h1"].raises
    /\ Len(Replies["h1"].trackers) = 2
    /\ announce_retry_counts["h1"] = 40
    /\ announce_retry_counts["h1"] >= config.max_announce_retries
    /\ rpc_log = {Reannounce("h1")}

\* C12: an observation of a torrent with (completed and age > 60) or age > 130
\* or age < 2 leaves its hash out of announce_retry_counts and issues no
\* re-announce and no tracker fetch for it, whatever its counter was; so a
\* torrent seen completed at age 61 is not in the map after any later
\* observation that finds it completed.
C12_EvictionFirst ==
    \A h \in DOMAIN Seen :
        ~Watched(h)
        => /\ h \notin DOMAIN announce_retry_counts
           /\ Reannounce(h) \notin rpc_log
           /\ TrackerFetch(h) \notin rpc_log

\* C12's case: h1, counted before, was seen completed at age 61 and is gone,
\* while h2 is still counted
C12_Witness ==
    /\ DOMAIN Seen = Hashes
    /\ Seen["h1"] = Observed(61, 100, 0)
    /\ "h1" \notin DOMAIN announce_retry_counts
    /\ "h2" \in DOMAIN announce_retry_counts
    /\ announce_retry_counts["h2"] >= 2
    /\ rpc_log = {TrackerFetch("h2")}
    /\ instances[1].success_metrics_count = 1


(***************************************************************************)
(* Claims on the webhook                                                   *)
(***************************************************************************)

\* requests with a JSON body that lacks release_name or download_url
LackingPayloads ==
    {data \in DispatchPayloads :
        data.json /\ (data.release_name = "" \/ data.download_url = "")}

C14_LackingStep ==
    \A data \in LackingPayloads :
        WebhookHandler(data) =>
            /\ webhook'.code = 400
            /\ pending_torrents' = pending_torrents

\* C14: a POST whose JSON body lacks release_name or download_url (missing or
\* empty) is answered with status 400 and leaves the queue as it is.
C14_LackingFieldsAnswered400 == [][C14_LackingStep]_vars

(***************************************************************************)
(* Claims on the workers together                                          *)
(***************************************************************************)

\* the step of the dispatch worker that adds the torrent to instance i
SuccessfulAddTo(i) ==
    /\ dispatch.pc = "add"
    /\ dispatch.selected = i
    /\ Len(pending_torrents') = Len(pending_torrents) - 1

C13_CounterStep ==
    \A i \in 1..NumInstances :
        \/ instances'[i].total_added_tasks_count = instances[i].total_added_tasks_count
        \/ /\ instances'[i].total_added_tasks_count =
                  instances[i].total_added_tasks_count + 1
           /\ SuccessfulAddTo(i)

C13_Conservation ==
    pending_torrents_lock = "free" =>
        TotalAdded = TotalEnqueued - Len(pending_torrents)

\* C13: every step of every worker leaves total_added_tasks_count of every
\* instance as it is or raises it by one, and raises it only in the step that
\* adds a torrent to that instance and takes it from the queue; whenever the
\* queue lock is free, the counters add up to the number of torrents that
\* were enqueued and are no longer in the queue.
C13_TotalAddedMonotone == [][C13_CounterStep]_vars /\ [](C13_Conservation)

\* an instance that was given a torrent, has had its pass counter reset, was
\* marked disconnected by a status tick and is being reconnected
C13_Witness ==
    \E i \in 1..NumInstances :
        /\ instances[i].total_added_tasks_count >= 1
        /\ instances[i].new_tasks_count = 0
        /\ ~instances[i].is_connected
        /\ instances[i].is_reconnecting
        /\ dispatch.pc = "idle"
        /\ pending_torrents_lock = "free"

(***************************************************************************)
(* Claims on the order of the queue                                        *)
(***************************************************************************)

RECURSIVE IsSubsequence(_, _)
\* s is t with some entries left out
IsSubsequence(s, t) ==
    IF s = <<>> THEN TRUE
    ELSE IF t = <<>> THEN FALSE
    ELSE IF Head(s) = Head(t) THEN IsSubsequence(Tail(s), Tail(t))
    ELSE IsSubsequence(s, Tail(t))

\* the last n entries of s
LastOf(s, n) == SubSeq(s, Len(s) - n + 1, Len(s))

\* a step appends one entry at the tail of the queue, or leaves the queue with
\* some entries taken out and the others in their order
C15_QueueStep ==
    \/ /\ Len(pending_torrents') = Len(pending_torrents) + 1
       /\ SubSeq(pending_torrents', 1, Len(pending_torrents)) = pending_torrents
    \/ IsSubsequence(pending_torrents', pending_torrents)

\* a pass starts from the queue as it is
C15_PassStart ==
    dispatch.pc = "idle" /\ dispatch'.pc = "select" =>
        dispatch'.snapshot = pending_torrents /\ dispatch'.k = 1

\* the add of a pass is for the k-th entry of the queue the pass started
\* from, no entry behind it has been touched, and the next add is for the
\* entry after it
C15_InPass ==
    dispatch.pc \in {"select", "add"} =>
        LET rest == Len(dispatch.snapshot) - dispatch.k + 1
        IN  /\ dispatch.k \in 1..Len(dispatch.snapshot)
            /\ Len(pending_torrents) >= rest
            /\ LastOf(pending_torrents, rest) = LastOf(dispatch.snapshot, rest)
            /\ IsSubsequence(pending_torrents, dispatch.snapshot)

C15_PassStep ==
    dispatch.pc = "add" =>
        /\ Len(pending_torrents') < Len(pending_torrents) =>
              pending_torrents' = RemoveFirst(pending_torrents,
                                              dispatch.snapshot[dispatch.k])
        /\ dispatch'.pc = "select" => dispatch'.k = dispatch.k + 1

\* between passes the queue is what the last pass left, in its order, followed
\* by the entries enqueued since
C15_BetweenPasses ==
    pending_torrents_lock = "free" =>
        /\ Len(scenario.leftover) <= Len(pending_torrents)
        /\ SubSeq(pending_torrents, 1, Len(scenario.leftover)) = scenario.leftover

\* C15: a pass issues its add calls, and hands torrents out, in the order of
\* the queue, which is the order of the enqueues; the torrents a pass leaves
\* keep their order in the queue, ahead of the torrents enqueued after it.
C15_EnqueueOrderKept ==
    /\ [](C15_InPass /\ C15_BetweenPasses)
    /\ [][C15_QueueStep /\ C15_PassStart /\ C15_PassStep]_vars

\* a pass has left T1 after a failed add and handed T2 out, T2 was enqueued
\* again, and the next pass, after T1 failed once more, is adding T2
C15_Witness ==
    /\ scenario.leftover = <<T1>>
    /\ hist.handed["u2"] = 1
    /\ dispatch.pc = "add"
    /\ dispatch.snapshot = <<T1, T2>>
    /\ dispatch.k = 2
    /\ dispatch.failed
    /\ pending_torrents = <<T1, T2>>

(***************************************************************************)
(* Claims on the status tick                                               *)
(***************************************************************************)

\* a turn of the loop of _update_instance_status
TurnStep == status.pc = "update" /\ status' # status

\* the turn for instance status.i: an instance that is not connected is left
\* as it is without a call; a connected one stays connected unless both of
\* the turn's two calls failed, and then it is marked with the time; no other
\* instance is written
C16_Turn ==
    TurnStep =>
        LET i == status.i
            turn == scenario'.turn
        IN  /\ ~instances[i].is_connected =>
                  turn.attempts = 0 /\ instances'[i] = instances[i]
            /\ instances[i].is_connected /\ turn.failures < 2 =>
                  /\ instances'[i].is_connected
                  /\ turn.attempts = turn.failures + 1
            /\ instances[i].is_connected /\ turn.failures = 2 =>
                  /\ turn.attempts = 2
                  /\ ~instances'[i].is_connected
                  /\ instances'[i].last_update = now
            /\ \A j \in 1..NumInstances : j # i => instances'[j] = instances[j]

\* a connected instance becomes disconnected in no other step
C16_OnlyInTurn ==
    \A i \in 1..NumInstances :
        instances[i].is_connected /\ ~instances'[i].is_connected =>
            TurnStep /\ status.i = i /\ scenario'.turn.failures = 2

\* C16: in a status tick a connected instance is marked disconnected, with
\* last_update stamped, only after two failed update attempts in a row within
\* the tick; a failure followed by a successful retry leaves it connected; an
\* instance that is not connected is not polled.
C16_TwoFailuresDisconnect == [][C16_Turn /\ C16_OnlyInTurn]_vars

\* one tick: the first instance failed once and is connected, the second
\* failed twice and is marked disconnected at the time of the tick
C16_Witness ==
    /\ status.pc = "summary"
    /\ scenario.turn = [attempts |-> 2, failures |-> 2]
    /\ instances[1].is_connected
    /\ instances[1].success_metrics_count = 1
    /\ ~instances[NumInstances].is_connected
    /\ instances[NumInstances].last_update = now
    /\ now > 0

(***************************************************************************)
(* Claims on the reconnect scheduler and the reconnect threads             *)
(***************************************************************************)

\* a thread is started for an instance that is not connected and not
\* reconnecting, whose last_update is reconnect_interval or more before the
\* scheduler's current_time, and the same step sets its flag; one thread is
\* started at a time per instance
C17_SpawnStep ==
    \A i \in Spawned :
        /\ status.pc = "schedule"
        /\ ~instances[i].is_connected
        /\ ~instances[i].is_reconnecting
        /\ status.current_time - instances[i].last_update >= config.reconnect_interval
        /\ now - instances[i].last_update >= config.reconnect_interval
        /\ instances'[i].is_reconnecting
        /\ Len(reconnect'[i]) = Len(reconnect[i]) + 1

\* an instance has one reconnect thread while its flag is set and none otherwise
C17_OneTask ==
    \A i \in 1..NumInstances :
        Len(reconnect[i]) = IF instances[i].is_reconnecting THEN 1 ELSE 0

\* C17: a reconnect task is started for an instance only from a state where
\* it is not connected, not reconnecting and its last_update is at least
\* reconnect_interval old, and is_reconnecting is set in the same critical
\* section; at most one reconnect task per instance is in flight at any time.
C17_OneReconnectTask == [][C17_SpawnStep]_vars /\ [](C17_OneTask)

\* the scheduler runs again while an instance's thread is in flight and the
\* instance's last_update is reconnect_interval old again
C17_Witness ==
    \E i \in 1..NumInstances :
        /\ status.pc = "schedule"
        /\ Len(reconnect[i]) = 1
        /\ ~instances[i].is_connected
        /\ status.current_time - instances[i].last_update >= config.reconnect_interval

\* the step in which a reconnect thread of instance i ends after it gave up
GivesUp(i) ==
    /\ Len(reconnect[i]) > Len(reconnect'[i])
    /\ \E n \in 1..Len(reconnect[i]) : reconnect[i][n].pc \in {"failed", "raised"}

\* a thread that gives up leaves the instance not connected, not reconnecting
\* and stamped with the time
C18_GivesUpStep ==
    \A i \in 1..NumInstances :
        GivesUp(i) =>
            /\ ~instances'[i].is_connected
            /\ ~instances'[i].is_reconnecting
            /\ instances'[i].last_update = now
            /\ scenario'.down[i] = now

\* an instance found down at time t stays as it was left until a thread is
\* started for it
C18_LeftDown ==
    \A i \in 1..NumInstances :
        scenario.down[i] >= 0 =>
            /\ ~instances[i].is_connected
            /\ ~instances[i].is_reconnecting
            /\ instances[i].last_update = scenario.down[i]

\* a thread is started for an instance found down at time t no earlier than
\* t + reconnect_interval
C18_SpacedSpawn ==
    \A i \in Spawned :
        /\ scenario.down[i] >= 0
        /\ now >= scenario.down[i] + config.reconnect_interval

\* C18: a reconnect task that ends in failure at time t (every login failed,
\* or the task raised) leaves the instance with is_connected=false,
\* is_reconnecting=false and last_update=t, and no reconnect task is started
\* for the instance before t + reconnect_interval; the same spacing holds
\* from the time at which the status worker marks an instance disconnected.
C18_ReconnectSpacing ==
    [][C18_GivesUpStep /\ C18_SpacedSpawn]_vars /\ [](C18_LeftDown)

\* a reconnect thread gave up at a time t > 0, and the scheduler runs for the
\* instance before t + reconnect_interval
C18_Witness ==
    \E i \in 1..NumInstances :
        /\ scenario.cause[i] = "task"
        /\ scenario.down[i] > 0
        /\ status.pc = "schedule"
        /\ status.current_time >= scenario.down[i]
        /\ status.current_time < scenario.down[i] + config.reconnect_interval

\* the end of a reconnect thread clears the flag: after a login the instance
\* is connected, after giving up or an exception it is not
C19_EndStep ==
    \A i \in 1..NumInstances :
        Len(reconnect[i]) > Len(reconnect'[i]) =>
            /\ instances[i].is_reconnecting
            /\ ~instances'[i].is_reconnecting
            /\ instances'[i].is_connected <=>
                  \E n \in 1..Len(reconnect[i]) : reconnect[i][n].pc = "success"

\* C19: under fair scheduling, with logins that return or fail, an instance
\* with is_reconnecting=true eventually has is_reconnecting=false; the flag
\* is cleared by the end of the thread, which leaves the instance connected
\* after a login and not connected after exhaustion or an exception.
C19_ReconnectingEnds ==
    /\ \A i \in 1..NumInstances :
          instances[i].is_reconnecting ~> ~instances[i].is_reconnecting
    /\ [][C19_EndStep]_vars

\* one instance's thread has given up and its flag is cleared, another's has
\* logged in and waits for instances_lock, which the status worker holds
C19_Witness ==
    \E i \in 1..NumInstances : \E j \in 1..NumInstances :
        /\ scenario.cause[i] = "task"
        /\ ~instances[i].is_reconnecting
        /\ instances[j].is_reconnecting
        /\ Len(reconnect[j]) = 1
        /\ reconnect[j][1].pc = "success"
        /\ instances_lock = "status"

(***************************************************************************)
(* Claims on failed add calls                                              *)
(***************************************************************************)

\* the step of a failed add call
FailedAdd ==
    /\ dispatch.pc = "add"
    /\ dispatch'.pc # "add"
    /\ scenario'.retries[AddedUrl] = scenario.retries[AddedUrl] + 1

\* a failed add leaves the queue and every instance as they are, and the pass
\* goes on to the next torrent of its snapshot, or ends after the last
C20_FailedAddStep ==
    FailedAdd =>
        /\ pending_torrents' = pending_torrents
        /\ instances' = instances
        /\ IF dispatch.k < Len(dispatch.snapshot)
           THEN dispatch'.pc = "select" /\ dispatch'.k = dispatch.k + 1
           ELSE dispatch'.pc = "reset"

\* a torrent whose add has failed is pending
C20_StillPending ==
    \A u \in Urls : scenario.retries[u] > 0 => InQueue(u) = 1

\* every pass takes the torrent up again, and issues the add call for it when
\* an instance is selected for it, whatever the number of failed calls
C20_TakenUpAgain ==
    /\ dispatch.pc = "idle" /\ dispatch'.pc = "select" =>
          \A u \in Urls : scenario.retries[u] > 0 =>
             \E k \in 1..Len(dispatch'.snapshot) : dispatch'.snapshot[k].download_url = u
    /\ dispatch.pc = "select" /\ dispatch'.pc = "add" =>
          /\ dispatch'.snapshot = dispatch.snapshot
          /\ dispatch'.k = dispatch.k
          /\ dispatch'.selected = SelectBestInstance(config, instances)

SelectionStep == dispatch.pc = "select" /\ dispatch' # dispatch

\* with no eligible instance the selection ends the pass: the current torrent
\* and the torrents behind it are in the queue, in their order, no instance
\* is written and nothing is handed out
C21_StopStep ==
    SelectionStep /\ EligibleSet = {} =>
        LET rest == Len(dispatch.snapshot) - dispatch.k + 1
        IN  /\ dispatch'.pc = "reset"
            /\ dispatch'.broke
            /\ pending_torrents' = pending_torrents
            /\ Len(pending_torrents') >= rest
            /\ LastOf(pending_torrents', rest) = LastOf(dispatch.snapshot, rest)
            /\ instances' = instances
            /\ hist'.handed = hist.handed

\* a pass that has stopped issues no add call
C21_Stopped == dispatch.broke => dispatch.pc = "reset"

\* C21: when no instance is eligible for the current torrent of a pass, the
\* pass stops: no add call is issued for this torrent or for a later torrent
\* of the pass, and these torrents all remain in the queue.
C21_PassStops == [][C21_StopStep]_vars /\ [](C21_Stopped)

\* a pass over two torrents has stopped at the first
C21_Witness ==
    /\ dispatch.broke
    /\ dispatch.pc = "reset"
    /\ dispatch.k = 1
    /\ Len(dispatch.snapshot) = 2
    /\ pending_torrents = dispatch.snapshot

(***************************************************************************)
(* Claims on the per-pass counter                                          *)
(***************************************************************************)

\* new_tasks_count is 0 on every instance
CountersClear ==
    \A i \in 1..Len(instances) : instances[i].new_tasks_count = 0

\* between passes, and so at the start of a pass, the counters are clear
C22_ClearAtStart == dispatch.pc = "idle" => CountersClear

\* a counter goes down only in the step that follows the end of a pass, which
\* clears all of them; that step is the only one the dispatch worker takes
\* after a pass
C22_ResetStep ==
    /\ (\E i \in 1..Len(instances) :
           instances'[i].new_tasks_count < instances[i].new_tasks_count) =>
          dispatch.pc = "reset" /\ dispatch'.pc = "idle"
    /\ dispatch.pc = "reset" /\ dispatch' # dispatch =>
          dispatch'.pc = "idle" /\ CountersClear'
    /\ dispatch.pc \in {"select", "add"} =>
          \A i \in 1..Len(instances) :
             instances'[i].new_tasks_count >= instances[i].new_tasks_count

\* C22: new_tasks_count is set to 0 on every instance after each dispatch
\* pass and never during a pass; at the start of every pass it is 0 on all
\* instances, so that an instance that reached the cap in one pass passes the
\* cap test in the next.
C22_ResetAfterPass == [](C22_ClearAtStart) /\ [][C22_ResetStep]_vars

\* with a cap of one, an instance that was given a torrent in an earlier pass
\* is selected again
C22_Witness ==
    /\ config.max_new_tasks_per_instance = 1
    /\ dispatch.pc = "add"
    /\ instances[dispatch.selected].total_added_tasks_count = 1
    /\ instances[dispatch.selected].new_tasks_count = 0

(***************************************************************************)
(* Claims on the re-announce conditions                                    *)
(***************************************************************************)

\* the observation of h is neither evicted nor a forced re-announce
Ordinary(h) ==
    /\ Watched(h)
    /\ ~(ForcedAt(announce_retry_counts[h]) /\ ~Completed(h))

\* the http(s) trackers of the list fetched for h
HttpTrackers(h) ==
    SelectSeq(Replies[h].trackers,
              LAMBDA tr : tr.url \in HttpUrls /\ tr.url \notin PeerSourceUrls)

AllFailed(h) ==
    \A n \in 1..Len(HttpTrackers(h)) : HttpTrackers(h)[n].status \in {1, 3, 4}

ErrorKeyword(h) ==
    \E n \in 1..Len(HttpTrackers(h)) : HttpTrackers(h)[n].msg \in ErrorMessages

PeerStarved(h) == Seen[h].progress < 80 /\ Seen[h].num_leechs < 3

\* C23: for an observation that is neither evicted nor a forced re-announce,
\* with counter k, a re-announce is issued if and only if k is below
\* max_announce_retries, the list of http(s) trackers fetched for the torrent
\* is not empty, and all of them have failed, or one carries an error keyword,
\* or the torrent is peer-starved; from k = max_announce_retries on no RPC of
\* any kind is issued.
C23_ReannounceConditions ==
    \A h \in DOMAIN Seen :
        Ordinary(h) =>
            LET k == announce_retry_counts[h]
            IN  /\ Reannounce(h) \in rpc_log <=>
                      /\ k < config.max_announce_retries
                      /\ ~Replies[h].raises
                      /\ HttpTrackers(h) # <<>>
                      /\ AllFailed(h) \/ ErrorKeyword(h) \/ PeerStarved(h)
                /\ k >= config.max_announce_retries =>
                      Reannounce(h) \notin rpc_log /\ TrackerFetch(h) \notin rpc_log

\* the sixth observation at interval 3 of a torrent with peers, whose one
\* https tracker works but says that the torrent is not registered
C23_Witness ==
    /\ config.fast_announce_interval = 3
    /\ DOMAIN Seen = {"h1"}
    /\ Seen["h1"] = Observed(61, 90, 5)
    /\ announce_retry_counts["h1"] = 6
    /\ Replies["h1"].trackers = <<Tracker("https://b/announce", 2, "Torrent not registered")>>
    /\ rpc_log = {TrackerFetch("h1"), Reannounce("h1")}

(***************************************************************************)
(* Claims on failed announce RPCs                                          *)
(***************************************************************************)

\* the counters the supervisor found at the last snapshot
Prior == scenario.snapshot[3]
PriorCount(h) == IF h \in DOMAIN Prior THEN Prior[h] ELSE 0

\* an RPC issued for h in the last snapshot has failed
RpcFailed(h) ==
    \/ TrackerFetch(h) \in rpc_log /\ Replies[h].raises
    \/ Reannounce(h) \in rpc_log /\ Replies[h].reannounce_raises

\* the RPC an observation of h starts with has been issued
Processed(h) ==
    IF ForcedAt(announce_retry_counts[h]) /\ ~Completed(h)
    THEN Reannounce(h) \in rpc_log
    ELSE announce_retry_counts[h] < config.max_announce_retries =>
            TrackerFetch(h) \in rpc_log

\* C24: a tracker fetch or a re-announce that fails for one torrent changes
\* no state: the torrent's counter is the one the observation's increment
\* gave it, the instance is still connected, the tick has made one attempt
\* on the snapshot, and the other torrents of the snapshot have been
\* processed.
C24_RpcFailureContained ==
    \A h \in DOMAIN Seen :
        Watched(h) /\ RpcFailed(h) =>
            /\ announce_retry_counts[h] = PriorCount(h) + 1
            /\ instances[1].is_connected
            /\ scenario.turn = [attempts |-> 1, failures |-> 0]
            /\ \A g \in DOMAIN Seen :
                  Watched(g) =>
                     /\ announce_retry_counts[g] = PriorCount(g) + 1
                     /\ Processed(g)

\* the forced re-announce of h1 has failed and, in the same snapshot, the
\* trackers of h2 have been fetched
C24_Witness ==
    /\ DOMAIN Seen = Hashes
    /\ Reannounce("h1") \in rpc_log
    /\ TrackerFetch("h1") \notin rpc_log
    /\ Replies["h1"].reannounce_raises
    /\ TrackerFetch("h2") \in rpc_log
    /\ announce_retry_counts["h2"] = 2

(***************************************************************************)
(* Claims on a failed traffic probe                                        *)
(***************************************************************************)

\* the last reading of instance k's meter failed: an HTTP error or invalid
\* JSON, or a value that is not a number
ProbeFailed(k) == hist.last_probe[k].kind \in {"error", "bad_value"}

\* the traffic criterion of the eligibility predicate
WithinLimit(k) ==
    \/ instances[k].traffic_out = 0
    \/ instances[k].traffic_limit = 0
    \/ instances[k].traffic_out < instances[k].traffic_limit

\* C25: after a traffic probe that fails, traffic_out is 0 and the instance
\* passes the traffic criterion of the eligibility predicate whatever its
\* traffic_limit and whatever the probe before had left; the instance is
\* still connected.
C25_FailedProbeAllows ==
    \A k \in 1..Len(instances) :
        ProbeFailed(k) =>
            /\ instances[k].traffic_out = 0
            /\ WithinLimit(k)
            /\ IsTrafficWithinLimit(instances[k])
            /\ instances[k].is_connected

\* the first reading had left an instance over its limit of 1 MiB, another
\* throttled; the second reading of both has failed
C25_Witness ==
    \E j \in 1..NumInstances : \E k \in 1..NumInstances :
        /\ scenario.start[j].traffic_out = 2 * MiB
        /\ scenario.start[j].traffic_limit = MiB
        /\ scenario.start[k].traffic_out = THROTTLED_TRAFFIC_OUT
        /\ hist.last_probe[j].kind = "error"
        /\ hist.last_probe[k].kind = "bad_value"
        /\ instances[j].success_metrics_count = SecondProbeAt
        /\ instances[k].success_metrics_count = SecondProbeAt
        /\ instances[j].traffic_out = 0

(***************************************************************************)
(* Claims on when traffic_out is written                                   *)
(***************************************************************************)

\* the step is the status worker's turn for instance k, with a snapshot that
\* brings success_metrics_count to a multiple of 30
ProbingSnapshot(k) ==
    /\ status.pc = "update"
    /\ status.i = k
    /\ instances'[k].success_metrics_count = instances[k].success_metrics_count + 1
    /\ instances'[k].success_metrics_count % TRAFFIC_CHECK_EVERY = 0

C26_TrafficStep ==
    \A k \in 1..Len(instances) :
        instances'[k].traffic_out # instances[k].traffic_out =>
            /\ ProbingSnapshot(k)
            /\ instances[k].traffic_check_url # ""

\* C26: traffic_out of an instance changes only in a status turn whose
\* successful snapshot brings success_metrics_count to a multiple of 30, and
\* only for an instance with a traffic_check_url; every other step leaves it
\* as it is, so an instance without a meter keeps traffic_out = 0.
C26_TrafficOutFrame == [][C26_TrafficStep]_vars

\* past the 30th snapshot of both: the metered instance has a reading, the
\* instance without a meter still has 0
C26_Witness ==
    \E j \in 1..NumInstances : \E k \in 1..NumInstances :
        /\ instances[j].traffic_check_url # ""
        /\ instances[j].success_metrics_count > TRAFFIC_CHECK_EVERY
        /\ instances[j].traffic_out = 2 * MiB
        /\ instances[k].traffic_check_url = ""
        /\ instances[k].success_metrics_count > TRAFFIC_CHECK_EVERY
        /\ instances[k].traffic_out = 0

(***************************************************************************)
(* Claims on the two locks                                                 *)
(***************************************************************************)

\* the threads that keep a lock from one step to the next
Workers == {"dispatch", "status"}

\* the locks thread t holds
Held(t) ==
    {l \in {"pending_torrents_lock"} : pending_torrents_lock = t}
    \cup {l \in {"instances_lock"} : instances_lock = t}

\* the lock the next step of thread t takes, "none" when it takes none
Wanted(t) ==
    IF t = "dispatch"
    THEN IF dispatch.pc = "idle" THEN "pending_torrents_lock"
         ELSE IF dispatch.pc \in {"select", "reset"} THEN "instances_lock"
         ELSE "none"
    ELSE IF status.pc = "update" THEN "none" ELSE "instances_lock"

\* a reconnect thread is at one of its locked blocks
ReconnectWaits ==
    \E i \in 1..NumInstances : \E n \in 1..Len(reconnect[i]) :
        reconnect[i][n].pc \in {"success", "failed", "raised"}

\* a step of a thread that holds a lock
HolderStep ==
    /\ \/ ProcessTorrentsSelect
       \/ \E result \in SystemAddResults : ProcessTorrentsAdd(result)
       \/ \E outcome \in {"ok", "fail"} :
             UpdateSingleInstance(outcome, SystemMaindata, NoProbe, NoReplies)
    /\ UNCHANGED scenario

\* C27: the threads cannot deadlock on the two locks.  A thread takes a lock
\* while it holds another only in the dispatch pass, which holds
\* pending_torrents_lock and takes instances_lock for the selection; no thread
\* that holds instances_lock takes pending_torrents_lock; no thread takes a
\* lock it holds; and while a lock is held, a thread that holds one can step.
C27_LockDiscipline ==
    /\ pending_torrents_lock \in {"free", "dispatch"}
    /\ instances_lock \in {"free", "status"}
    /\ \A t \in Workers :
          /\ Wanted(t) \notin Held(t)
          /\ Held(t) # {} /\ Wanted(t) # "none" =>
                /\ t = "dispatch"
                /\ dispatch.pc = "select"
                /\ Held(t) = {"pending_torrents_lock"}
                /\ Wanted(t) = "instances_lock"
    /\ pending_torrents_lock # "free" \/ instances_lock # "free" => ENABLED HolderStep

\* the dispatch pass holds pending_torrents_lock and waits with a reconnect
\* thread for instances_lock, which the status worker holds
C27_Witness ==
    /\ pending_torrents_lock = "dispatch"
    /\ dispatch.pc = "select"
    /\ instances_lock = "status"
    /\ ReconnectWaits

(***************************************************************************)
(* Claims on the instance an add call goes to                              *)
(***************************************************************************)

\* the dispatch worker is about to call torrents_add on dispatch.selected
AddCallDue == dispatch.pc = "add"

\* C28 as stated: the instance is connected at the moment of the add call
C28_AsStated == AddCallDue => instances[dispatch.selected].is_connected

C28_SelectionStep ==
    /\ dispatch.pc = "select" /\ dispatch'.pc = "add" =>
          /\ instances_lock = "free"
          /\ instances[dispatch'.selected].is_connected
    /\ AddCallDue /\ dispatch'.pc = "add" => dispatch'.selected = dispatch.selected

\* C28 (amended): the instance of an add call was connected when it was
\* selected under instances_lock, and the call goes to that instance whatever
\* the other threads do before it is made.
C28_ConnectedWhenSelected == [][C28_SelectionStep]_vars

\* the status worker, in its tick, has marked instance 1 disconnected after the
\* dispatch worker selected it; the add call is still to come
C28_Witness ==
    /\ AddCallDue
    /\ dispatch.selected = 1
    /\ instances_lock = "status"
    /\ status.i = 2
    /\ ~instances[1].is_connected

(***************************************************************************)
(* Claims on the life of an entry of announce_retry_counts                 *)
(***************************************************************************)

Monitored(h) == h \in DOMAIN announce_retry_counts

\* C29: every info-hash inserted into announce_retry_counts is eventually
\* removed from it, whatever the later snapshots show (the torrent may be
\* gone from them, its instance may be marked disconnected), so that the
\* status worker returns to the slow cadence, which it keeps while
\* announce_retry_counts is empty.
C29_EveryHashLeaves == \A h \in Hashes : Monitored(h) ~> ~Monitored(h)

(***************************************************************************)
(* Claims on an instance before its first snapshot                         *)
(***************************************************************************)

\* instance k has had no successful snapshot
NotPolled(k) == instances[k].success_metrics_count = 0

\* C30: with a reserved_space that is not negative, an instance is not
\* selected for dispatch before its first successful status snapshot, also
\* when it is connected from the start: its free_space is still 0, which is
\* not above reserved_space, and no add call has gone to it.
C30_NotSelectedBeforeSnapshot ==
    \A k \in 1..Len(instances) :
        NotPolled(k) /\ instances[k].reserved_space >= 0 =>
            /\ instances[k].free_space = 0
            /\ ~IsAvailable(config, instances[k])
            /\ dispatch.selected # k
            /\ instances[k].total_added_tasks_count = 0

\* a dispatch pass has found no instance for a pending release although an
\* instance with reserved_space 0 is connected, before any snapshot
C30_Witness ==
    /\ dispatch.pc = "reset"
    /\ dispatch.broke
    /\ pending_torrents # <<>>
    /\ \A k \in 1..NumInstances : NotPolled(k)
    /\ \E k \in 1..NumInstances :
          instances[k].is_connected /\ instances[k].reserved_space = 0

(***************************************************************************)
(* Claims on debug_add_stopped                                             *)
(***************************************************************************)

\* instance k has the metrics of a snapshot
MetricsUpdated(k) ==
    /\ instances[k].free_space = SystemMaindata.free_space_on_disk
    /\ instances[k].upload_speed = SystemMaindata.up_info_speed
    /\ instances[k].last_update = now

\* C31: with debug_add_stopped set the announce supervisor does nothing:
\* announce_retry_counts stays empty and no call of torrents_trackers or
\* torrents_reannounce is made, whatever the snapshots show; the metrics of
\* an instance are still those of its snapshots, and every add call carries
\* is_stopped = true.
C31_SupervisorInert ==
    config.debug_add_stopped =>
        /\ announce_retry_counts = <<>>
        /\ rpc_log = {}
        /\ \A h \in Hashes : hist.observed[h] = 0
        /\ \A k \in 1..Len(instances) :
              instances[k].success_metrics_count > 0 => MetricsUpdated(k)
        /\ scenario.add_params # <<>> => scenario.add_params.is_stopped

\* with debug_add_stopped set, an instance has taken a second snapshot, which
\* shows an unfinished torrent of age 61 s, and a release has been added with
\* is_stopped = true
C31_Witness ==
    /\ config.debug_add_stopped
    /\ scenario.snapshot # <<>>
    /\ "h1" \in DOMAIN scenario.snapshot.torrents
    /\ \E k \in 1..NumInstances :
          /\ instances[k].success_metrics_count = MaxTicks
          /\ MetricsUpdated(k)
          /\ instances[k].total_added_tasks_count > 0
    /\ scenario.add_params # <<>>
    /\ scenario.add_params.is_stopped
    /\ \E u \in Urls : hist.handed[u] > 0

====
